---- MODULE Spec2Model ----
(***************************************************************************)
(* Goal tracker backend (src/app.py): the document store (six collections  *)
(* plus the stray "bills" collection delete_account names), the request    *)
(* handlers that read and write it, and the analytics computations.        *)
(*                                                                         *)
(* Time is a count of hours; a datetime is an integer t, its calendar day  *)
(* is t \div 24 and its hour of day t % 24.  utc is the server clock as    *)
(* datetime.utcnow() reads it, utc + tz as datetime.now() reads it.        *)
(* ObjectIds are drawn from one counter, so no id is ever used twice.      *)
(* Percentages with one decimal are integers counting tenths.              *)
(***************************************************************************)
EXTENDS Integers, Sequences, FiniteSets, TLC

VARIABLES
    users,             \* mongo.db.users
    goals,             \* mongo.db.goals
    habits,            \* mongo.db.habits
    habit_logs,        \* mongo.db.habit_logs
    utility_bills,     \* mongo.db.utility_bills
    user_preferences,  \* mongo.db.user_preferences
    bills,             \* mongo.db.bills (named by delete_account only)
    next_id,           \* the next ObjectId the store hands out
    utc,               \* the clock, in hours
    tz,                \* offset of local time from UTC, in hours
    reqs,              \* requests in flight, one per slot
    actor,             \* the logged-in user of the last request handled
    resp,              \* what the last read request returned
    log_calls          \* history: log_habit requests answered with success

vars == <<users, goals, habits, habit_logs, utility_bills, user_preferences,
          bills, next_id, utc, tz, reqs, actor, resp, log_calls>>

(***************************************************************************)
(* Bounds of the model                                                     *)
(***************************************************************************)
\* documents that add_goal, add_habit, add_bill, settings and
\* update_preferences insert in one behaviour
MaxNewIds == 2
\* habit logs in the store at one time
MaxLogs == 2
\* the largest completed_count a log is raised to
MaxCount == 2
\* log_habit requests in flight at one time
MaxReqs == 2
\* times the clock advances
MaxTicks == 1
\* add requests behind a store that is read
MaxSeeds == 2
\* consecutive days with a completion, one more than the streak loop scans
MaxStreakDays == 31
\* completed goals of an analysed user, past the last milestone
MaxCompleted == 151
\* pending goals beside them
MaxPending == 3
\* completed and pending goals, each, where every combination is taken
MaxRate == 6
\* completions at each edge of the monthly windows
MaxPerWindow == 2
\* completed goals whose hours are varied
MaxHourGoals == 5

(***************************************************************************)
(* Input sets                                                              *)
(***************************************************************************)
HoursPerDay == 24

\* None in a date field
NoDate == -1
StartUtc == 100 * HoursPerDay + 9
TickHours == HoursPerDay \div 2

TzOffsets == {0, 5}
GoalForms ==
    {[text |-> "", priority |-> "medium", category |-> "", due_date |-> NoDate],
     [text |-> "t1", priority |-> "medium", category |-> "",
      due_date |-> NoDate],
     [text |-> "t2", priority |-> "high", category |-> "work",
      due_date |-> 120]}
BulkActions == {"complete", "delete", "archive"}
HabitForms ==
    {[name |-> "h1", description |-> "none", frequency |-> "daily",
      target_count |-> 1, category |-> "general"],
     [name |-> "h2", description |-> "none", frequency |-> "weekly",
      target_count |-> 2, category |-> "health"]}
BillForms ==
    {[bill_type |-> "milk", amount |-> 10, consumption |-> 2,
      unit |-> "liters", notes |-> "none", date |-> NoDate],
     [bill_type |-> "water", amount |-> 30, consumption |-> 5,
      unit |-> "liters", notes |-> "n1", date |-> 90]}
CategoryFilters == {"", "work", "general"}
PriorityFilters == {"", "high"}
StatusFilters == {"", "completed", "pending"}
SearchQueries == {"", "t", "T1"}
BillTypes == {"milk", "water"}
Themes == {"light", "dark"}
AnalyticsClocks == {StartUtc, StartUtc + TickHours}
HourSamples == {4, 5, 11, 12, 14, 16, 17, 20, 21}
ConfirmTexts == {"delete", "DELETE", "no"}

Slots == 1..MaxReqs

(***************************************************************************)
(* Dates and datetimes                                                     *)
(***************************************************************************)
\* datetime.utcnow()
UtcNow == utc

\* datetime.now()
Now == utc + tz

\* dt.date()
DateOf(dt) == dt \div HoursPerDay

\* datetime.combine(d, datetime.min.time())
Combine(d) == d * HoursPerDay

\* dt.replace(hour=0, minute=0, second=0, microsecond=0)
StartOfDay(dt) == dt - (dt % HoursPerDay)

\* dt.replace(hour=23, minute=59, second=59, microsecond=999999)
EndOfDay(dt) == StartOfDay(dt) + (HoursPerDay - 1)

\* dt.hour
HourOf(dt) == dt % HoursPerDay

\* dt - timedelta(days=n)
MinusDays(dt, n) == dt - n * HoursPerDay

\* the date -> datetime conversion of Goal.save / HabitLog.save / UtilityBill.save
ToStoredDate(d) == IF d = NoDate THEN NoDate ELSE Combine(d)

(***************************************************************************)
(* Store helpers                                                           *)
(***************************************************************************)
UserIds == {u.id : u \in users}

\* collection.find_one(query): the matching document the store returns, or
\* none; which one of several matches it returns is the store's choice.
FindOne(matches) == IF matches = {} THEN {{}} ELSE {{d} : d \in matches}

\* collection.count_documents(query)
CountDocuments(matches) == Cardinality(matches)

\* the one element of a set that has one
TheOne(S) == CHOOSE x \in S : TRUE

\* what a read request returns: the documents it lists and the numbers it
\* reports
Response(route, u, records, data) ==
    [route |-> route, user |-> u, records |-> records, data |-> data]

\* analytics_data['habits'] and ['habit_weekly_progress'] of a response
\* that reports none
NoHabitData ==
    [total |-> 0, active |-> 0, completed_today |-> 0, completion_rate |-> 0,
     longest_streak |-> 0, average_streak |-> 0, weekly_progress |-> <<>>]

NoData ==
    [total |-> 0, completed |-> 0, pending |-> 0, completion_rate |-> 0,
     current_streak |-> 0, level |-> "none", monthly_improvement |-> 0,
     most_productive_time |-> "none", categories |-> {},
     achievements_count |-> 0, weekly_progress |-> <<>>,
     habits |-> NoHabitData]

NoResponse == Response("none", 0, {}, NoData)

IdleReq == [route |-> "idle", user |-> 0, habit_id |-> 0, pc |-> "idle",
            today |-> 0, existing_log |-> {}]

(***************************************************************************)
(* Initial state: two registered users, empty collections.                 *)
(***************************************************************************)
\* generate_password_hash(password): a value that check_password_hash
\* accepts for that password only
generate_password_hash(password) == "hash:" \o password

\* User.save: user_data, with the _id the store holds it under
UserDoc(id, username, email, password_hash, google_id, created_at) ==
    [id |-> id, username |-> username, email |-> email,
     password_hash |-> password_hash, google_id |-> google_id,
     profile_pic |-> "none", created_at |-> created_at]

InitialUsers ==
    {UserDoc(1, "alice", "alice@x", generate_password_hash("secret1"), "none",
             StartUtc),
     UserDoc(2, "bob", "bob@x", generate_password_hash("secret1"), "none",
             StartUtc)}

\* ids 1..FirstFreeId-1 are taken by the initial users
FirstFreeId == Cardinality(InitialUsers) + 1

\* the ids a request names in a URL or a form: the id of every document of
\* the collection the route looks in, and one id that no document has
GoalIds == {g.id : g \in goals} \cup {next_id}
HabitIds == {h.id : h \in habits} \cup {next_id}
BillIds == {b.id : b \in utility_bills} \cup {next_id}

\* the id lists a bulk_action form can carry
GoalIdLists == {ids \in SUBSET GoalIds : Cardinality(ids) <= 2}

InitStore ==
    /\ users = InitialUsers
    /\ goals = {}
    /\ habits = {}
    /\ habit_logs = {}
    /\ utility_bills = {}
    /\ user_preferences = {}
    /\ bills = {}
    /\ next_id = FirstFreeId

Init ==
    /\ InitStore
    /\ utc = StartUtc
    /\ tz \in TzOffsets
    /\ reqs = [s \in Slots |-> IdleReq]
    /\ actor = 0
    /\ resp = NoResponse
    /\ log_calls = [k \in {} |-> 0]

(***************************************************************************)
(* Goals                                                                   *)
(***************************************************************************)
\* a save that leaves the time of the save out
StaleGoalData(g, now) ==
    [id |-> g.id, text |-> g.text, user_id |-> g.user_id,
     completed |-> g.completed, priority |-> g.priority,
     category |-> g.category,
     due_date |-> IF g.due_date = NoDate THEN NoDate
                  ELSE g.due_date * HoursPerDay,
     created_at |-> g.created_at, updated_at |-> g.created_at]

\* Goal.save: the document written; updated_at is always the time of save
GoalData(g, now) ==
    [id |-> g.id, text |-> g.text, user_id |-> g.user_id,
     completed |-> g.completed, priority |-> g.priority,
     category |-> g.category, due_date |-> ToStoredDate(g.due_date),
     created_at |-> g.created_at, updated_at |-> now]

\* Goal.find_by_id / find_by_user_id / index: the Goal built from a document
GoalObject(d) ==
    [id |-> d.id, text |-> d.text, user_id |-> d.user_id,
     completed |-> d.completed, priority |-> d.priority,
     category |-> d.category,
     due_date |-> IF d.due_date = NoDate THEN NoDate ELSE DateOf(d.due_date),
     created_at |-> d.created_at, updated_at |-> d.updated_at]

\* Goal.find_by_id: the Goal built from the document with that _id, if any
Goal_find_by_id(coll, goal_id) ==
    {GoalObject(d) : d \in {x \in coll : x.id = goal_id}}

\* a save that writes the completed flag and the time only
Goal_save_changed_only(coll, g, now) ==
    {IF d.id = g.id
       THEN [d EXCEPT !.completed = g.completed, !.updated_at = now]
       ELSE d : d \in coll}

\* Goal.save of a Goal that has an id: update_one({'_id': id}, {'$set': ...})
Goal_save(coll, g, now) ==
    {IF d.id = g.id THEN GoalData(g, now) ELSE d : d \in coll}

\* Goal.delete: delete_one({'_id': id})
Goal_delete(coll, g) == {d \in coll : d.id # g.id}

\* a lookup that leaves the ownership comparison out
AnyGoals(found, u) == found

\* "if not goal or goal.user_id != current_user.id": the goals that pass
OwnedGoals(found, u) == {g \in found : g.user_id = u}

\* FlaskForm validation of GoalForm: text is required
GoalFormValid(form) == form.text # ""

\* "form.category.data or 'general'"
CategoryOrGeneral(category) == IF category = "" THEN "general" ELSE category

\* add_goal: the goals collection it leaves
add_goal(coll, u, id, form, now) ==
    IF GoalFormValid(form)
    THEN coll \cup
           {GoalData([id |-> id, text |-> form.text, user_id |-> u,
                      completed |-> FALSE, priority |-> form.priority,
                      category |-> CategoryOrGeneral(form.category),
                      due_date |-> form.due_date, created_at |-> now], now)}
    ELSE coll

\* an edit that leaves the stored updated_at as it was
edit_goal_keeping_stamp(coll, u, goal_id, form, now) ==
    LET owned == OwnedGoals(Goal_find_by_id(coll, goal_id), u) IN
    IF owned = {} \/ ~GoalFormValid(form)
    THEN coll
    ELSE {IF d.id = goal_id
            THEN [d EXCEPT !.text = form.text, !.priority = form.priority,
                           !.category = CategoryOrGeneral(form.category),
                           !.due_date = ToStoredDate(form.due_date)]
            ELSE d : d \in coll}

\* edit_goal (POST): the goals collection it leaves
edit_goal(coll, u, goal_id, form, now) ==
    LET owned == OwnedGoals(Goal_find_by_id(coll, goal_id), u) IN
    IF owned = {} \/ ~GoalFormValid(form)
    THEN coll
    ELSE Goal_save(coll,
                   [TheOne(owned) EXCEPT
                       !.text = form.text, !.priority = form.priority,
                       !.category = CategoryOrGeneral(form.category),
                       !.due_date = form.due_date, !.updated_at = now], now)

\* toggle_goal: the goals collection it leaves
toggle_goal(coll, u, goal_id, now) ==
    LET owned == OwnedGoals(Goal_find_by_id(coll, goal_id), u) IN
    IF owned = {}
    THEN coll
    ELSE Goal_save(coll,
                   [TheOne(owned) EXCEPT !.completed = ~@, !.updated_at = now],
                   now)

\* delete_goal: the goals collection it leaves
delete_goal(coll, u, goal_id) ==
    LET owned == OwnedGoals(Goal_find_by_id(coll, goal_id), u) IN
    IF owned = {} THEN coll ELSE Goal_delete(coll, TheOne(owned))

\* bulk_action: the goals among goal_ids that pass the ownership check
ValidGoals(coll, goal_ids, u) ==
    UNION {OwnedGoals(Goal_find_by_id(coll, id), u) : id \in goal_ids}

\* bulk_action: the goals collection it leaves; 'complete' saves every valid
\* goal with completed = True, 'delete' deletes every valid goal
bulk_action(coll, u, action, goal_ids, now) ==
    LET valid == ValidGoals(coll, goal_ids, u) IN
    CASE action = "complete" ->
           {IF \E g \in valid : g.id = d.id
              THEN GoalData([TheOne({g \in valid : g.id = d.id}) EXCEPT
                                !.completed = TRUE, !.updated_at = now], now)
              ELSE d : d \in coll}
      [] action = "delete" -> {d \in coll : \A g \in valid : g.id # d.id}
      [] OTHER -> coll

\* str.lower() on the confirmation text
Lower(text) == IF text = "DELETE" THEN "delete" ELSE text

\* delete_many({'user_id': user_id}) on a collection
DeleteManyOfUser(coll, u) == {d \in coll : d.user_id # u}

\* delete_all_goals: the goals collection it leaves
delete_all_goals(coll, u, confirm) ==
    IF Lower(confirm) # "delete" THEN coll ELSE DeleteManyOfUser(coll, u)

AddGoal(u, form) ==
    /\ next_id < FirstFreeId + MaxNewIds
    /\ goals' = add_goal(goals, u, next_id, form, UtcNow)
    /\ next_id' = IF GoalFormValid(form) THEN next_id + 1 ELSE next_id
    /\ actor' = u
    /\ UNCHANGED <<users, habits, habit_logs, utility_bills, user_preferences,
                   bills, utc, tz, reqs, resp, log_calls>>

EditGoal(u, goal_id, form) ==
    /\ goals' = edit_goal(goals, u, goal_id, form, UtcNow)
    /\ actor' = u
    /\ UNCHANGED <<users, habits, habit_logs, utility_bills, user_preferences,
                   bills, next_id, utc, tz, reqs, resp, log_calls>>

ToggleGoal(u, goal_id) ==
    /\ goals' = toggle_goal(goals, u, goal_id, UtcNow)
    /\ actor' = u
    /\ UNCHANGED <<users, habits, habit_logs, utility_bills, user_preferences,
                   bills, next_id, utc, tz, reqs, resp, log_calls>>

DeleteGoal(u, goal_id) ==
    /\ goals' = delete_goal(goals, u, goal_id)
    /\ actor' = u
    /\ UNCHANGED <<users, habits, habit_logs, utility_bills, user_preferences,
                   bills, next_id, utc, tz, reqs, resp, log_calls>>

BulkAction(u, action, goal_ids) ==
    /\ goals' = bulk_action(goals, u, action, goal_ids, UtcNow)
    /\ actor' = u
    /\ UNCHANGED <<users, habits, habit_logs, utility_bills, user_preferences,
                   bills, next_id, utc, tz, reqs, resp, log_calls>>

DeleteAllGoals(u, confirm) ==
    /\ goals' = delete_all_goals(goals, u, confirm)
    /\ actor' = u
    /\ UNCHANGED <<users, habits, habit_logs, utility_bills, user_preferences,
                   bills, next_id, utc, tz, reqs, resp, log_calls>>

GoalRoutes ==
    \E u \in UserIds :
        \/ \E f \in GoalForms : AddGoal(u, f)
        \/ \E id \in GoalIds, f \in GoalForms : EditGoal(u, id, f)
        \/ \E id \in GoalIds : ToggleGoal(u, id)
        \/ \E id \in GoalIds : DeleteGoal(u, id)
        \/ \E action \in BulkActions, ids \in GoalIdLists :
                BulkAction(u, action, ids)
        \/ \E confirm \in ConfirmTexts : DeleteAllGoals(u, confirm)

(***************************************************************************)
(* Habits and habit logs                                                   *)
(***************************************************************************)
\* Habit(...).save() without an id: the document inserted
HabitData(id, u, form, now) ==
    [id |-> id, name |-> form.name, user_id |-> u,
     frequency |-> form.frequency, target_count |-> form.target_count,
     description |-> form.description, category |-> form.category,
     is_active |-> TRUE, created_at |-> now]

\* a lookup of a habit that leaves the user_id out of the query
FindHabitOfAnyone(coll, habit_id, u) == {h \in coll : h.id = habit_id}

\* habits.find_one({'_id': ObjectId(habit_id), 'user_id': current_user.id})
FindHabit(coll, habit_id, u) ==
    {h \in coll : h.id = habit_id /\ h.user_id = u}

\* add_habit: the habits collection it leaves
add_habit(coll, u, id, form, now) == coll \cup {HabitData(id, u, form, now)}

\* edit_habit: the habits collection it leaves; update_one({'_id',
\* 'user_id'}, {'$set': {name, description, frequency, target_count,
\* category}})
edit_habit(coll, u, habit_id, form) ==
    IF FindHabit(coll, habit_id, u) = {}
    THEN coll
    ELSE {IF h.id = habit_id /\ h.user_id = u
            THEN [h EXCEPT !.name = form.name,
                           !.description = form.description,
                           !.frequency = form.frequency,
                           !.target_count = form.target_count,
                           !.category = form.category]
            ELSE h : h \in coll}

\* delete_habit: the habits collection it leaves;
\* habits.delete_one({'_id', 'user_id'})
delete_habit(coll, u, habit_id) ==
    IF FindHabit(coll, habit_id, u) = {}
    THEN coll
    ELSE {h \in coll : ~(h.id = habit_id /\ h.user_id = u)}

\* delete_habit: the habit_logs collection it leaves;
\* habit_logs.delete_many({'habit_id': ObjectId(habit_id)})
delete_habit_logs(habit_coll, log_coll, u, habit_id) ==
    IF FindHabit(habit_coll, habit_id, u) = {}
    THEN log_coll
    ELSE {l \in log_coll : l.habit_id # habit_id}

\* log_habit: today = datetime.now().replace(hour=0, minute=0, ...)
Today == StartOfDay(Now)

\* log_habit: the logs that find_one({'habit_id', 'user_id', 'date': today})
\* matches
TodayLogs(coll, habit_id, u, today) ==
    {l \in coll : l.habit_id = habit_id /\ l.user_id = u /\ l.date = today}

\* a log written with a completed flag beside its counter
HabitLogDataCompleted(id, habit_id, u, now) ==
    [id |-> id, habit_id |-> habit_id, user_id |-> u, completed_count |-> 1,
     notes |-> "none", date |-> ToStoredDate(DateOf(now)),
     completed |-> TRUE]

\* HabitLog(habit_id, user_id, completed_count=1).save(): the date defaults
\* to datetime.now().date() and is stored as that day's midnight
HabitLogData(id, habit_id, u, now) ==
    [id |-> id, habit_id |-> habit_id, user_id |-> u, completed_count |-> 1,
     notes |-> "none", date |-> ToStoredDate(DateOf(now))]

\* an update that leaves the counter as it is
KeepCompletedCount(coll, log_id) == coll

\* update_one({'_id': existing_log['_id']}, {'$inc': {'completed_count': 1}})
IncCompletedCount(coll, log_id) ==
    {IF l.id = log_id THEN [l EXCEPT !.completed_count = @ + 1] ELSE l :
        l \in coll}

\* log_habit, "if existing_log: ... else: ...": the habit_logs collection
\* it leaves
LogHabitWrite(coll, existing_log, id, habit_id, u, now) ==
    IF existing_log # {}
    THEN IncCompletedCount(coll, TheOne(existing_log).id)
    ELSE coll \cup {HabitLogData(id, habit_id, u, now)}

\* the model's bounds on a log_habit write
LogWriteInBounds(existing_log) ==
    /\ existing_log = {} => Cardinality(habit_logs) < MaxLogs
    /\ \A l \in existing_log : l.completed_count < MaxCount

\* history: one more log_habit answered with success for (habit, day)
CountLogCall(habit_id, day) ==
    IF <<habit_id, day>> \in DOMAIN log_calls
    THEN [log_calls EXCEPT ![<<habit_id, day>>] = @ + 1]
    ELSE [k \in DOMAIN log_calls \cup {<<habit_id, day>>} |->
            IF k = <<habit_id, day>> THEN 1 ELSE log_calls[k]]

\* history: the counts of the habits that still exist (a deleted habit's
\* logs are deleted with it)
ForgetLogCalls(habits_left) ==
    [k \in {x \in DOMAIN log_calls : \E h \in habits_left : h.id = x[1]} |->
        log_calls[k]]

AddHabit(u, form) ==
    /\ next_id < FirstFreeId + MaxNewIds
    /\ habits' = add_habit(habits, u, next_id, form, UtcNow)
    /\ next_id' = next_id + 1
    /\ actor' = u
    /\ UNCHANGED <<users, goals, habit_logs, utility_bills, user_preferences,
                   bills, utc, tz, reqs, resp, log_calls>>

EditHabit(u, habit_id, form) ==
    /\ habits' = edit_habit(habits, u, habit_id, form)
    /\ actor' = u
    /\ UNCHANGED <<users, goals, habit_logs, utility_bills, user_preferences,
                   bills, next_id, utc, tz, reqs, resp, log_calls>>

\* delete_habit (DELETE), the whole handler in one step, for requests
\* handled one at a time; DeleteHabitFind, DeleteHabitDeleteOne and
\* DeleteHabitDeleteMany are its three store calls one by one
DeleteHabit(u, habit_id) ==
    /\ habits' = delete_habit(habits, u, habit_id)
    /\ habit_logs' = delete_habit_logs(habits, habit_logs, u, habit_id)
    /\ log_calls' = ForgetLogCalls(habits')
    /\ actor' = u
    /\ UNCHANGED <<users, goals, utility_bills, user_preferences, bills,
                   next_id, utc, tz, reqs, resp>>

\* log_habit (POST), the whole handler in one step
LogHabit(u, habit_id) ==
    /\ actor' = u
    /\ IF FindHabit(habits, habit_id, u) = {}
       THEN UNCHANGED <<habit_logs, next_id, log_calls>>
       ELSE \E existing_log \in
                 FindOne(TodayLogs(habit_logs, habit_id, u, Today)) :
            /\ LogWriteInBounds(existing_log)
            /\ habit_logs' = LogHabitWrite(habit_logs, existing_log, next_id,
                                           habit_id, u, Now)
            /\ next_id' = IF existing_log = {} THEN next_id + 1 ELSE next_id
            /\ log_calls' = CountLogCall(habit_id, DateOf(Now))
    /\ UNCHANGED <<users, goals, habits, utility_bills, user_preferences,
                   bills, utc, tz, reqs, resp>>

HabitRoutes ==
    \E u \in UserIds :
        \/ \E f \in HabitForms : AddHabit(u, f)
        \/ \E id \in HabitIds, f \in HabitForms : EditHabit(u, id, f)
        \/ \E id \in HabitIds : DeleteHabit(u, id)
        \/ \E id \in HabitIds : LogHabit(u, id)

(***************************************************************************)
(* Utility bills                                                           *)
(***************************************************************************)
\* a parse that ends an hour early, on the day before
StrptimeDayBefore(day) == day * HoursPerDay - 1

\* datetime.strptime(bill_date, '%Y-%m-%d'): midnight of the day typed
Strptime(day) == Combine(day)

\* add_bill: date_obj is a date (the form's day, or datetime.now().date());
\* UtilityBill.save stores datetime.combine(date, datetime.min.time())
AddBillDate(form_date, now) ==
    IF form_date # NoDate
    THEN ToStoredDate(DateOf(Strptime(form_date)))
    ELSE ToStoredDate(DateOf(now))

\* edit_bill: date_obj is a datetime (the form's day at midnight, or
\* datetime.now() with its time of day), stored as it is
EditBillDate(form_date, now) ==
    IF form_date # NoDate THEN Strptime(form_date) ELSE now

\* UtilityBill.save() without an id: the document inserted
BillData(id, u, form, date) ==
    [id |-> id, bill_type |-> form.bill_type, user_id |-> u,
     amount |-> form.amount, date |-> date,
     consumption |-> form.consumption, unit |-> form.unit,
     notes |-> form.notes]

\* utility_bills.find_one({'_id': ObjectId(bill_id), 'user_id': ...})
FindBill(coll, bill_id, u) ==
    {b \in coll : b.id = bill_id /\ b.user_id = u}

\* add_bill: the utility_bills collection it leaves
add_bill(coll, u, id, form, now) ==
    coll \cup {BillData(id, u, form, AddBillDate(form.date, now))}

\* edit_bill: the utility_bills collection it leaves
edit_bill(coll, u, bill_id, form, now) ==
    IF FindBill(coll, bill_id, u) = {}
    THEN coll
    ELSE {IF b.id = bill_id /\ b.user_id = u
            THEN [b EXCEPT !.bill_type = form.bill_type,
                           !.amount = form.amount,
                           !.consumption = form.consumption,
                           !.unit = form.unit,
                           !.notes = form.notes,
                           !.date = EditBillDate(form.date, now)]
            ELSE b : b \in coll}

\* delete_bill: the utility_bills collection it leaves
delete_bill(coll, u, bill_id) ==
    IF FindBill(coll, bill_id, u) = {}
    THEN coll
    ELSE {b \in coll : ~(b.id = bill_id /\ b.user_id = u)}

AddBill(u, form) ==
    /\ next_id < FirstFreeId + MaxNewIds
    /\ utility_bills' = add_bill(utility_bills, u, next_id, form, Now)
    /\ next_id' = next_id + 1
    /\ actor' = u
    /\ UNCHANGED <<users, goals, habits, habit_logs, user_preferences, bills,
                   utc, tz, reqs, resp, log_calls>>

EditBill(u, bill_id, form) ==
    /\ utility_bills' = edit_bill(utility_bills, u, bill_id, form, Now)
    /\ actor' = u
    /\ UNCHANGED <<users, goals, habits, habit_logs, user_preferences, bills,
                   next_id, utc, tz, reqs, resp, log_calls>>

DeleteBill(u, bill_id) ==
    /\ utility_bills' = delete_bill(utility_bills, u, bill_id)
    /\ actor' = u
    /\ UNCHANGED <<users, goals, habits, habit_logs, user_preferences, bills,
                   next_id, utc, tz, reqs, resp, log_calls>>

BillRoutes ==
    \E u \in UserIds :
        \/ \E f \in BillForms : AddBill(u, f)
        \/ \E id \in BillIds, f \in BillForms : EditBill(u, id, f)
        \/ \E id \in BillIds : DeleteBill(u, id)

(***************************************************************************)
(* Preferences and account                                                 *)
(***************************************************************************)
\* settings: the default preferences document (of its fields the model
\* keeps the theme)
DefaultPreferences(id, u) == [id |-> id, user_id |-> u, theme |-> "light"]

\* user_preferences.find_one({'user_id': current_user.id})
FindPreferences(coll, u) == {p \in coll : p.user_id = u}

\* settings: the user_preferences collection it leaves
settings(coll, u, id) ==
    IF FindPreferences(coll, u) # {}
    THEN coll
    ELSE coll \cup {DefaultPreferences(id, u)}

\* update_preferences: update_one({'user_id'}, {'$set': ...}, upsert=True)
\* given the document the filter matched first (none: insert)
update_preferences(coll, u, matched, id, theme) ==
    IF matched = {}
    THEN coll \cup {[id |-> id, user_id |-> u, theme |-> theme]}
    ELSE {IF p \in matched THEN [p EXCEPT !.theme = theme] ELSE p :
            p \in coll}

\* users.delete_one({'_id': ObjectId(user_id)})
DeleteUser(coll, u) == {d \in coll : d.id # u}

\* delete_account: the number of store calls it makes, in the order goals,
\* habits, habit_logs, bills, user_preferences, users
DeleteAccountCalls == 6

\* a handler that undoes its earlier calls when a later one raises
delete_account_rolled_back(coll, u, confirm, fail_at, k) ==
    IF Lower(confirm) = "delete" /\ fail_at > DeleteAccountCalls
    THEN DeleteManyOfUser(coll, u)
    ELSE coll

\* delete_account: a collection after the handler's k-th call, a
\* delete_many({'user_id': user_id}); the call at fail_at raises and ends
\* the handler (fail_at > DeleteAccountCalls: no call raises)
delete_account(coll, u, confirm, fail_at, k) ==
    IF Lower(confirm) = "delete" /\ fail_at > k
    THEN DeleteManyOfUser(coll, u)
    ELSE coll

\* delete_account: the users collection after the last call
delete_account_user(coll, u, confirm, fail_at) ==
    IF Lower(confirm) = "delete" /\ fail_at > DeleteAccountCalls
    THEN DeleteUser(coll, u)
    ELSE coll

\* delete_account: logout_user() is reached when the confirm text passed
\* and no call raised
delete_account_logout(confirm, fail_at) ==
    Lower(confirm) = "delete" /\ fail_at > DeleteAccountCalls

Settings(u) ==
    /\ FindPreferences(user_preferences, u) = {} =>
           next_id < FirstFreeId + MaxNewIds
    /\ user_preferences' = settings(user_preferences, u, next_id)
    /\ next_id' = IF FindPreferences(user_preferences, u) = {}
                    THEN next_id + 1 ELSE next_id
    /\ actor' = u
    /\ UNCHANGED <<users, goals, habits, habit_logs, utility_bills, bills,
                   utc, tz, reqs, resp, log_calls>>

UpdatePreferences(u, theme) ==
    \E matched \in FindOne(FindPreferences(user_preferences, u)) :
        /\ matched = {} => next_id < FirstFreeId + MaxNewIds
        /\ user_preferences' =
               update_preferences(user_preferences, u, matched, next_id, theme)
        /\ next_id' = IF matched = {} THEN next_id + 1 ELSE next_id
        /\ actor' = u
        /\ UNCHANGED <<users, goals, habits, habit_logs, utility_bills, bills,
                       utc, tz, reqs, resp, log_calls>>

\* delete_account (POST): mongo.db.bills is the collection the fourth call
\* names; utility_bills is not touched
DeleteAccount(u, confirm, fail_at) ==
    /\ goals' = delete_account(goals, u, confirm, fail_at, 1)
    /\ habits' = delete_account(habits, u, confirm, fail_at, 2)
    /\ habit_logs' = delete_account(habit_logs, u, confirm, fail_at, 3)
    /\ bills' = delete_account(bills, u, confirm, fail_at, 4)
    /\ user_preferences' =
           delete_account(user_preferences, u, confirm, fail_at, 5)
    /\ users' = delete_account_user(users, u, confirm, fail_at)
    /\ log_calls' = ForgetLogCalls(habits')
    /\ actor' = u
    /\ UNCHANGED <<utility_bills, next_id, utc, tz, reqs, resp>>

AccountRoutes ==
    \E u \in UserIds :
        \/ Settings(u)
        \/ \E theme \in Themes : UpdatePreferences(u, theme)
        \/ \E c \in ConfirmTexts, k \in 1..(DeleteAccountCalls + 1) :
               /\ Lower(c) # "delete" => k = 1
               /\ DeleteAccount(u, c, k)

(***************************************************************************)
(* Time                                                                    *)
(***************************************************************************)
\* the clock advances between requests
Tick ==
    /\ utc + TickHours <= StartUtc + MaxTicks * TickHours
    /\ utc' = utc + TickHours
    /\ UNCHANGED <<users, goals, habits, habit_logs, utility_bills,
                   user_preferences, bills, next_id, tz, reqs, actor, resp,
                   log_calls>>

Next == GoalRoutes \/ HabitRoutes \/ BillRoutes \/ AccountRoutes

Spec == Init /\ [][Next]_vars

\* the routes that write goals, habits, habit logs and utility bills
DataNext == GoalRoutes \/ HabitRoutes \/ BillRoutes

SpecData == Init /\ [][DataNext]_vars

(***************************************************************************)
(* Ownership of mutations and the account cascade                          *)
(***************************************************************************)
\* the documents of a collection that a step changed or deleted
Touched(old, new) == {d \in old : d \notin new}

\* C1: no request changes or deletes a goal, habit, habit log or utility
\* bill whose user_id differs from the id of the user logged in for that
\* request (actor' is the user of the request that made the step).
C1_MutationsOnlyTouchOwnRecords ==
    [][\A d \in Touched(goals, goals') \cup Touched(habits, habits')
               \cup Touched(habit_logs, habit_logs')
               \cup Touched(utility_bills, utility_bills') :
           d.user_id = actor']_vars

\* C1 case: the last request was made by a user who owns a completed goal
\* (a toggle or bulk complete has acted) while a goal of another user is in
\* the store.
C1_Witness ==
    /\ \E g \in goals : g.user_id = actor /\ g.completed
    /\ \E g \in goals : g.user_id # actor

\* C3: when delete_account removes user U's record (every call of the
\* handler went through), the store afterwards holds no goal, habit, habit
\* log, utility bill or preferences document whose user_id is U.
C3_DeleteAccountLeavesNothing ==
    [][\A u \in UserIds :
           u \notin UserIds' =>
               /\ \A d \in goals' : d.user_id # u
               /\ \A d \in habits' : d.user_id # u
               /\ \A d \in habit_logs' : d.user_id # u
               /\ \A d \in utility_bills' : d.user_id # u
               /\ \A d \in user_preferences' : d.user_id # u]_vars

(***************************************************************************)
(* log_habit, requests one after another                                   *)
(***************************************************************************)
\* log_habit reads the habit's _id and user_id only: the habits logged
\* here are added from the daily form and not edited
DailyHabitForms == {f \in HabitForms : f.frequency = "daily"}

HabitsNext ==
    \/ \E u \in UserIds, f \in DailyHabitForms : AddHabit(u, f)
    \/ \E u \in UserIds, id \in HabitIds : LogHabit(u, id)
    \/ \E u \in UserIds, id \in HabitIds : DeleteHabit(u, id)
    \/ Tick

SpecHabits == Init /\ [][HabitsNext]_vars

\* Habit.delete, called on a habit object h that a find returned: one store
\* call, habits.delete_one({'_id': id}).  The filter names no user_id, the
\* habit's logs stay in habit_logs, and nobody is logged in or out by it.
Habit_delete(h) ==
    /\ h \in habits
    /\ habits' = {d \in habits : d.id # h.id}
    /\ UNCHANGED <<users, goals, habit_logs, utility_bills, user_preferences,
                   bills, next_id, utc, tz, reqs, actor, resp, log_calls>>

\* No route of app.py calls Habit.delete (delete_habit makes its own store
\* calls), so the specifications of the routes do not take this step.  Here
\* the method is taken next to the habit routes, as a caller holding a
\* Habit object may use it.
HabitObjectsNext ==
    \/ HabitsNext
    \/ \E h \in habits : Habit_delete(h)

SpecHabitObjects == Init /\ [][HabitObjectsNext]_vars

\* the habit logs stored for a habit and a calendar day
LogsOfDay(habit_id, day) ==
    {l \in habit_logs : l.habit_id = habit_id /\ DateOf(l.date) = day}

\* C4: when n >= 1 log_habit requests of a habit's owner have run one after
\* another on one calendar day, the store holds exactly one habit log for
\* that (habit id, day) and its completed_count is n.
C4_SequentialLogsShareOneRow ==
    \A k \in DOMAIN log_calls :
        /\ Cardinality(LogsOfDay(k[1], k[2])) = 1
        /\ \A l \in LogsOfDay(k[1], k[2]) : l.completed_count = log_calls[k]

\* C4 case: a habit logged twice on one day, and logged on two days
C4_Witness ==
    /\ \E k \in DOMAIN log_calls : log_calls[k] = 2
    /\ Cardinality(DOMAIN log_calls) = 2

(***************************************************************************)
(* log_habit, requests interleaved between their store calls               *)
(***************************************************************************)
\* log_habit, first store call: habits.find_one({'_id', 'user_id'}); the
\* handler answers 'Habit not found' and ends when there is none
LogHabitBegin(s, u, habit_id) ==
    /\ reqs[s].pc = "idle"
    /\ reqs' = IF FindHabit(habits, habit_id, u) = {}
                 THEN reqs
                 ELSE [reqs EXCEPT ![s] =
                          [route |-> "log_habit", user |-> u,
                           habit_id |-> habit_id, pc |-> "find_log",
                           today |-> 0, existing_log |-> {}]]
    /\ actor' = u
    /\ UNCHANGED <<users, goals, habits, habit_logs, utility_bills,
                   user_preferences, bills, next_id, utc, tz, resp,
                   log_calls>>

\* log_habit, second store call: today is computed and
\* habit_logs.find_one({'habit_id', 'user_id', 'date': today}) is read
LogHabitFindLog(s) ==
    /\ reqs[s].pc = "find_log"
    /\ \E existing_log \in FindOne(TodayLogs(habit_logs, reqs[s].habit_id,
                                              reqs[s].user, Today)) :
           reqs' = [reqs EXCEPT ![s].pc = "write", ![s].today = Today,
                                ![s].existing_log = existing_log]
    /\ actor' = reqs[s].user
    /\ UNCHANGED <<users, goals, habits, habit_logs, utility_bills,
                   user_preferences, bills, next_id, utc, tz, resp,
                   log_calls>>

\* log_habit, third store call: the $inc on the log found, or the insert
\* of a new log; the handler answers success
LogHabitWriteStep(s) ==
    /\ reqs[s].pc = "write"
    /\ reqs[s].existing_log = {} => Cardinality(habit_logs) < MaxLogs
    /\ \A l \in habit_logs :
           (\E e \in reqs[s].existing_log : e.id = l.id) =>
               l.completed_count < MaxCount
    /\ habit_logs' = LogHabitWrite(habit_logs, reqs[s].existing_log, next_id,
                                   reqs[s].habit_id, reqs[s].user, Now)
    /\ next_id' = IF reqs[s].existing_log = {} THEN next_id + 1 ELSE next_id
    /\ log_calls' = CountLogCall(reqs[s].habit_id, DateOf(reqs[s].today))
    /\ reqs' = [reqs EXCEPT ![s] = IdleReq]
    /\ actor' = reqs[s].user
    /\ UNCHANGED <<users, goals, habits, utility_bills, user_preferences,
                   bills, utc, tz, resp>>

RaceNext ==
    \/ \E u \in UserIds, f \in HabitForms : AddHabit(u, f)
    \/ \E s \in Slots, u \in UserIds, id \in HabitIds :
           LogHabitBegin(s, u, id)
    \/ \E s \in Slots : LogHabitFindLog(s)
    \/ \E s \in Slots : LogHabitWriteStep(s)

SpecRace == Init /\ [][RaceNext]_vars

RECURSIVE SumCompletedCount(_)
\* the sum of completed_count over a set of habit logs
SumCompletedCount(logs) ==
    IF logs = {}
    THEN 0
    ELSE LET l == TheOne(logs) IN
         l.completed_count + SumCompletedCount(logs \ {l})

\* C5: in every reachable state, interleavings of log_habit included, there
\* is at most one habit log per (habit id, date) and the counters of a
\* (habit, day) add up to the log_habit requests answered with success.
C5_OneLogPerHabitAndDay ==
    /\ \A l1, l2 \in habit_logs :
           (l1.habit_id = l2.habit_id /\ l1.date = l2.date) => l1 = l2
    /\ \A k \in DOMAIN log_calls :
           SumCompletedCount(LogsOfDay(k[1], k[2])) = log_calls[k]

(***************************************************************************)
(* Read routes                                                             *)
(***************************************************************************)
\* {'$regex': search_query, '$options': 'i'} on the texts the forms carry:
\* "t" occurs in every text that has one, "T1" occurs, case ignored, in
\* "t1" only
RegexSearch(search_query, text) ==
    CASE search_query = "t" -> text \in {"t1", "t2"}
      [] search_query = "T1" -> text = "t1"
      [] OTHER -> text = search_query

\* a query that leaves the priority filter out
IndexQueryAnyPriority(coll, u, category, priority, status, search) ==
    {d \in coll :
        /\ d.user_id = u
        /\ category # "" => d.category = category
        /\ status = "completed" => d.completed
        /\ status = "pending" => ~d.completed
        /\ search # "" => RegexSearch(search, d.text)}

\* index: the documents query_filter matches
IndexQuery(coll, u, category, priority, status, search) ==
    {d \in coll :
        /\ d.user_id = u
        /\ category # "" => d.category = category
        /\ priority # "" => d.priority = priority
        /\ status = "completed" => d.completed
        /\ status = "pending" => ~d.completed
        /\ search # "" => RegexSearch(search, d.text)}

\* index: categories = goals.distinct('category', {'user_id': ...})
IndexCategories(coll, u) == {d.category : d \in {x \in coll : x.user_id = u}}

\* a listing that leaves the user filter out
Goal_find_all(coll, u) == {GoalObject(d) : d \in coll}

\* Goal.find_by_user_id
Goal_find_by_user_id(coll, u) ==
    {GoalObject(d) : d \in {x \in coll : x.user_id = u}}

\* Habit.find_by_user_id: find({'user_id': user_id, 'is_active': True})
Habit_find_by_user_id(coll, u) ==
    {h \in coll : h.user_id = u /\ h.is_active}

\* UtilityBill.find_by_user_and_type: the stored datetime is turned back
\* into a date; for a document without date UtilityBill(date=None) takes
\* "date or datetime.now().date()", the server's today.  The list is
\* sorted by date; the set here keeps the bills and not their order.
UtilityBill_find_by_user_and_type(coll, u, bill_type, now) ==
    {[b EXCEPT !.date = IF b.date = NoDate THEN DateOf(now)
                        ELSE DateOf(b.date)] :
        b \in {x \in coll : x.user_id = u /\ x.bill_type = bill_type}}

\* get_habit: habit_data of the document found
get_habit(found) ==
    {[id |-> h.id, name |-> h.name, description |-> h.description,
      frequency |-> h.frequency, target_count |-> h.target_count,
      category |-> h.category] : h \in found}

\* get_bill: bill_data of the document found; the date as '%Y-%m-%d'
get_bill(found) ==
    {[id |-> b.id, bill_type |-> b.bill_type, amount |-> b.amount,
      consumption |-> b.consumption, unit |-> b.unit,
      date |-> IF b.date = NoDate THEN NoDate ELSE DateOf(b.date),
      notes |-> b.notes] : b \in found}

\* api_stats: the numbers it reports
api_stats(coll, u) ==
    LET total == CountDocuments({g \in coll : g.user_id = u})
        completed == CountDocuments({g \in coll : g.user_id = u /\ g.completed})
    IN [NoData EXCEPT !.total = total, !.completed = completed,
                      !.pending = total - completed]

\* a read request that also stores default preferences for the user
ReadsAndStores(u, response) ==
    /\ resp' = response
    /\ actor' = u
    /\ user_preferences' = settings(user_preferences, u, next_id)
    /\ next_id' = next_id + 1
    /\ UNCHANGED <<users, goals, habits, habit_logs, utility_bills, bills,
                   utc, tz, reqs, log_calls>>

\* a read request leaves everything but the response as it is
Reads(u, response) ==
    /\ resp' = response
    /\ actor' = u
    /\ UNCHANGED <<users, goals, habits, habit_logs, utility_bills,
                   user_preferences, bills, next_id, utc, tz, reqs,
                   log_calls>>

Index(u, category, priority, status, search) ==
    Reads(u, Response("index", u,
                      {GoalObject(d) :
                          d \in IndexQuery(goals, u, category, priority,
                                           status, search)},
                      [NoData EXCEPT !.categories = IndexCategories(goals, u)]))

FindGoalsByUser(u) ==
    Reads(u, Response("Goal.find_by_user_id", u,
                      Goal_find_by_user_id(goals, u), NoData))

FindHabitsByUser(u) ==
    Reads(u, Response("Habit.find_by_user_id", u,
                      Habit_find_by_user_id(habits, u), NoData))

FindBillsByUserAndType(u, bill_type) ==
    Reads(u, Response("UtilityBill.find_by_user_and_type", u,
                      UtilityBill_find_by_user_and_type(utility_bills, u,
                                                        bill_type, Now),
                      NoData))

GetHabit(u, habit_id) ==
    \E found \in FindOne(FindHabit(habits, habit_id, u)) :
        Reads(u, Response("get_habit", u, get_habit(found), NoData))

GetBill(u, bill_id) ==
    \E found \in FindOne(FindBill(utility_bills, bill_id, u)) :
        Reads(u, Response("get_bill", u, get_bill(found), NoData))

ApiStats(u) ==
    Reads(u, Response("api_stats", u, {}, api_stats(goals, u)))

ReadRoutes ==
    \E u \in UserIds :
        \/ \E c \in CategoryFilters, p \in PriorityFilters,
              st \in StatusFilters, q \in SearchQueries : Index(u, c, p, st, q)
        \/ FindGoalsByUser(u)
        \/ FindHabitsByUser(u)
        \/ \E t \in BillTypes : FindBillsByUserAndType(u, t)
        \/ \E id \in HabitIds : GetHabit(u, id)
        \/ \E id \in BillIds : GetBill(u, id)
        \/ ApiStats(u)

(***************************************************************************)
(* Stores to read from: the stores that up to MaxSeeds add requests made   *)
(* at StartUtc leave, each added goal toggled or not                       *)
(***************************************************************************)
SeedUsers == {u.id : u \in InitialUsers}

Seeds ==
    [route : {"add_goal"}, user : SeedUsers,
     form : {f \in GoalForms : GoalFormValid(f)}, toggle : BOOLEAN]
    \cup [route : {"add_habit"}, user : SeedUsers, form : HabitForms,
          toggle : {FALSE}]
    \cup [route : {"add_bill"}, user : SeedUsers, form : BillForms,
          toggle : {FALSE}]

SeedLists == UNION {[1..n -> Seeds] : n \in 0..MaxSeeds}

RECURSIVE SeededGoals(_, _)
\* the goals collection after the first n requests of the list
SeededGoals(seeds, n) ==
    IF n = 0
    THEN {}
    ELSE LET prev == SeededGoals(seeds, n - 1)
             id == FirstFreeId + n - 1
             added == add_goal(prev, seeds[n].user, id, seeds[n].form,
                               StartUtc)
         IN  IF seeds[n].route # "add_goal" THEN prev
             ELSE IF seeds[n].toggle
                  THEN toggle_goal(added, seeds[n].user, id, StartUtc)
                  ELSE added

RECURSIVE SeededHabits(_, _)
\* the habits collection after the first n requests of the list
SeededHabits(seeds, n) ==
    IF n = 0
    THEN {}
    ELSE LET prev == SeededHabits(seeds, n - 1) IN
         IF seeds[n].route # "add_habit" THEN prev
         ELSE add_habit(prev, seeds[n].user, FirstFreeId + n - 1,
                        seeds[n].form, StartUtc)

RECURSIVE SeededBills(_, _, _)
\* the utility_bills collection after the first n requests of the list
SeededBills(seeds, n, now) ==
    IF n = 0
    THEN {}
    ELSE LET prev == SeededBills(seeds, n - 1, now) IN
         IF seeds[n].route # "add_bill" THEN prev
         ELSE add_bill(prev, seeds[n].user, FirstFreeId + n - 1,
                       seeds[n].form, now)

ReadInit ==
    /\ users = InitialUsers
    /\ utc = StartUtc
    /\ tz \in TzOffsets
    /\ \E seeds \in SeedLists :
           /\ goals = SeededGoals(seeds, Len(seeds))
           /\ habits = SeededHabits(seeds, Len(seeds))
           /\ utility_bills = SeededBills(seeds, Len(seeds), StartUtc + tz)
           /\ next_id = FirstFreeId + Len(seeds)
    /\ habit_logs = {}
    /\ user_preferences = {}
    /\ bills = {}
    /\ reqs = [s \in Slots |-> IdleReq]
    /\ actor = 0
    /\ resp = NoResponse
    /\ log_calls = [k \in {} |-> 0]

SpecRead == ReadInit /\ [][ReadRoutes]_vars

\* the stored documents, of any collection, that have the id
StoredWithId(id) ==
    {d \in goals \cup habits \cup utility_bills : d.id = id}

\* C2: every record a read returns to user U (goal list, Goal.find_by_user_id,
\* Habit.find_by_user_id, UtilityBill.find_by_user_and_type, get_habit,
\* get_bill) is a stored record whose user_id is U, and api_stats counts no
\* goal of another user.
C2_ReadsReturnOnlyOwnRecords ==
    /\ \A r \in resp.records :
           /\ StoredWithId(r.id) # {}
           /\ \A d \in StoredWithId(r.id) : d.user_id = resp.user
    /\ resp.route = "api_stats" =>
           /\ resp.data.total =
                  Cardinality(goals)
                  - Cardinality({g \in goals : g.user_id # resp.user})
           /\ resp.data.completed =
                  Cardinality({g \in goals : g.completed})
                  - Cardinality({g \in goals :
                                    g.completed /\ g.user_id # resp.user})
    /\ \A c \in resp.data.categories :
           \E g \in goals : g.user_id = resp.user /\ g.category = c

\* C2 case: a listing that returned a record while a goal of another user
\* was in the store
C2_Witness ==
    /\ resp.route = "Goal.find_by_user_id"
    /\ resp.records # {}
    /\ \E g \in goals : g.user_id # resp.user

(***************************************************************************)
(* Analytics                                                               *)
(***************************************************************************)
\* count_documents({'user_id', 'completed': True,
\*                  'updated_at': {'$gte': lo, '$lte': hi}})
CompletedBetween(coll, u, lo, hi) ==
    CountDocuments({g \in coll : /\ g.user_id = u
                                 /\ g.completed
                                 /\ g.updated_at >= lo
                                 /\ g.updated_at <= hi})

\* a window one day longer than the loop's
LongerWindow == 30 + 1

\* "for i in range(30)": the days the streak loop looks at
StreakWindow == 30

RECURSIVE current_streak(_, _, _, _)
\* analytics: what the streak loop adds from its i-th iteration on
current_streak(coll, u, now, i) ==
    IF i >= StreakWindow
    THEN 0
    ELSE LET date == MinusDays(now, i) IN
         IF CompletedBetween(coll, u, StartOfDay(date), EndOfDay(date)) > 0
         THEN 1 + current_streak(coll, u, now, i + 1)
         ELSE 0

\* thresholds compared with > where the code has >=
get_user_level_above(completed_goals) ==
    IF completed_goals > 100 THEN "Goal Master"
    ELSE IF completed_goals > 50 THEN "Goal Expert"
    ELSE IF completed_goals > 25 THEN "Goal Achiever"
    ELSE IF completed_goals > 10 THEN "Goal Seeker"
    ELSE IF completed_goals > 5 THEN "Goal Starter"
    ELSE "Newcomer"

\* analytics.get_user_level
get_user_level(completed_goals) ==
    IF completed_goals >= 100 THEN "Goal Master"
    ELSE IF completed_goals >= 50 THEN "Goal Expert"
    ELSE IF completed_goals >= 25 THEN "Goal Achiever"
    ELSE IF completed_goals >= 10 THEN "Goal Seeker"
    ELSE IF completed_goals >= 5 THEN "Goal Starter"
    ELSE "Newcomer"

\* milestones = [1, 5, 10, 15, 20, 25, 30, 40, 50, 75, 100, 150]
Milestones == {1, 5, 10, 15, 20, 25, 30, 40, 50, 75, 100, 150}

\* milestones counted when the count is above them, not when it meets them
achievements_above(completed_goals) ==
    Cardinality({milestone \in Milestones : completed_goals > milestone})

\* analytics: achievements_count, one more for every milestone that
\* completed_goals has reached
achievements_count(completed_goals) ==
    Cardinality({milestone \in Milestones : completed_goals >= milestone})

\* date.strftime('%a'); day 0 of the model's calendar is a Monday
WeekdayNames == <<"Mon", "Tue", "Wed", "Thu", "Fri", "Sat", "Sun">>
StrftimeWeekday(dt) == WeekdayNames[(DateOf(dt) % Len(WeekdayNames)) + 1]

\* "for i in range(7)": the days of the weekly progress
WeekDays == 7

\* a list left in the order it was built in
SameOrder(list) == list

\* list.reverse()
Reverse(list) == [i \in 1..Len(list) |-> list[Len(list) + 1 - i]]

\* analytics: weekly_data, built from today backward and then reversed
weekly_data(coll, u, now) ==
    Reverse([i \in 1..WeekDays |->
                LET date == MinusDays(now, i - 1) IN
                [date |-> StrftimeWeekday(date),
                 completed |-> CompletedBetween(coll, u, StartOfDay(date),
                                                EndOfDay(date))]])

\* a quotient cut off instead of rounded
floor_percent(n, d) == (1000 * n) \div d

\* 2 ** k
RECURSIVE Pow2(_)
Pow2(k) == IF k = 0 THEN 1 ELSE 2 * Pow2(k - 1)

\* 2 ** k % d
RECURSIVE Pow2Mod(_, _)
Pow2Mod(k, d) == IF k = 0 THEN 1 % d ELSE (2 * Pow2Mod(k - 1, d)) % d

\* the binary exponent of n / d (n, d > 0): 2^e <= n / d < 2^(e+1)
RECURSIVE Log2Floor(_, _)
Log2Floor(n, d) ==
    IF n >= 2 * d THEN Log2Floor(n, 2 * d) + 1
    ELSE IF n < d THEN Log2Floor(2 * n, d) - 1
    ELSE 0

\* Python's n / d for integers n, d > 0: the double nearest to the quotient,
\* a tie going to the even significand.  With e the exponent, the
\* significand is M = n * 2^(52 - e) / d rounded to an integer; the record
\* holds e, M % 256 and rho, where M is the exact quotient plus rho / d.
FloatDiv(n, d) ==
    LET e == Log2Floor(n, d)
        r1 == ((n % d) * Pow2Mod(52 - e - 8, d)) % d
        F == (256 * r1) \div d
        r == (256 * r1) % d
        up == 2 * r > d \/ (2 * r = d /\ F % 2 = 1)
    IN  [e |-> e,
         low |-> (F + (IF up THEN 1 ELSE 0)) % 256,
         rho |-> IF up THEN d - r ELSE 0 - r]

\* the sign of (n / d) - n/d: the double against the exact quotient
QuotientError(n, d) == FloatDiv(n, d).rho

\* the sign of (n / d * 100) - 100n/d: the product 100 * M has 59 or 60
\* bits and is rounded to 53, a tie going to the even significand; delta is
\* what that rounding adds
PercentError(n, d) ==
    LET q == FloatDiv(n, d)
        s == IF q.e >= 0 - 5
             THEN IF 25 * n < d * Pow2(5 + q.e) THEN 6 ELSE 7
             ELSE IF 25 * n * Pow2(0 - 5 - q.e) < d THEN 6 ELSE 7
        plow == (100 * q.low) % Pow2(s + 1)
        low == plow % Pow2(s)
        bit == plow \div Pow2(s)
        half == Pow2(s - 1)
        delta == IF low < half \/ (low = half /\ bit = 0)
                 THEN 0 - low ELSE Pow2(s) - low
    IN  100 * q.rho + delta * d

\* round(x, 1), in tenths, of a double x that stands for scale/10 * n / d
\* (n >= 0, d > 0) and differs from it with the sign of error: the nearest
\* tenth; where the exact value lies midway between two tenths the double
\* decides, and a double that is exactly midway goes to the even tenth
RoundTenths(n, d, scale, error) ==
    LET q == (scale * n) \div d
        r == scale * n - q * d
    IN  IF 2 * r < d THEN q
        ELSE IF 2 * r > d THEN q + 1
        ELSE IF error > 0 THEN q + 1
        ELSE IF error < 0 THEN q
        ELSE IF q % 2 = 0 THEN q ELSE q + 1

\* round(n / d * 100, 1) for d > 0, in tenths of a percent
round_percent(n, d) ==
    IF n = 0 THEN 0
    ELSE IF n > 0 THEN RoundTenths(n, d, 1000, PercentError(n, d))
    ELSE 0 - RoundTenths(0 - n, d, 1000, PercentError(0 - n, d))

\* round(n / d, 1) for n >= 0 and d > 0, in tenths
round_ratio(n, d) ==
    IF n = 0 THEN 0 ELSE RoundTenths(n, d, 10, QuotientError(n, d))

\* round(completed / total * 100 if total > 0 else 0, 1), in tenths of a
\* percent
completion_rate(completed, total) ==
    IF total > 0 THEN round_percent(completed, total) ELSE 0

\* last_month_start
LastMonthStart(now) == StartOfDay(MinusDays(now, 30))

\* previous_month_start
PreviousMonthStart(now) == StartOfDay(MinusDays(now, 60))

\* last_month_completed: 'updated_at': {'$gte': last_month_start}
last_month_completed(coll, u, now) ==
    CountDocuments({g \in coll : /\ g.user_id = u
                                 /\ g.completed
                                 /\ g.updated_at >= LastMonthStart(now)})

\* a preceding window that takes its end instant in
previous_month_through_end(coll, u, now) ==
    CountDocuments({g \in coll : /\ g.user_id = u
                                 /\ g.completed
                                 /\ g.updated_at >= PreviousMonthStart(now)
                                 /\ g.updated_at <= LastMonthStart(now)})

\* previous_month_completed:
\* 'updated_at': {'$gte': previous_month_start, '$lt': previous_month_end}
previous_month_completed(coll, u, now) ==
    CountDocuments({g \in coll : /\ g.user_id = u
                                 /\ g.completed
                                 /\ g.updated_at >= PreviousMonthStart(now)
                                 /\ g.updated_at < LastMonthStart(now)})

\* monthly_improvement, in tenths of a percent
monthly_improvement(coll, u, now) ==
    LET last == last_month_completed(coll, u, now)
        previous == previous_month_completed(coll, u, now)
    IN  IF previous > 0
        THEN round_percent(last - previous, previous)
        ELSE 0

\* hour_counts[hour]: the completed goals of the user whose updated_at has
\* that hour
HourCount(coll, u, hour) ==
    Cardinality({g \in coll : /\ g.user_id = u
                              /\ g.completed
                              /\ HourOf(g.updated_at) = hour})

\* most_productive_hour: 9 when hour_counts is empty, else
\* max(hour_counts, key=hour_counts.get); of several hours with the largest
\* count max returns the one the cursor met first, which is the store's
\* choice
MostProductiveHours(coll, u) ==
    LET hours == {h \in 0..(HoursPerDay - 1) : HourCount(coll, u, h) > 0} IN
    IF hours = {}
    THEN {9}
    ELSE {h \in hours :
             \A k \in hours : HourCount(coll, u, k) <= HourCount(coll, u, h)}

\* a bucketing that answers morning for every hour
always_morning(hour) == "morning"

\* analytics.get_time_of_day
get_time_of_day(hour) ==
    IF 5 <= hour /\ hour < 12 THEN "morning"
    ELSE IF 12 <= hour /\ hour < 17 THEN "afternoon"
    ELSE IF 17 <= hour /\ hour < 21 THEN "evening"
    ELSE "night"

\* analytics: analytics_data['goals'] and analytics_data['achievements']
\* for the hour that max() returned
analytics(coll, u, now, most_productive_hour) ==
    LET total_goals == CountDocuments({g \in coll : g.user_id = u})
        completed_goals ==
            CountDocuments({g \in coll : g.user_id = u /\ g.completed})
    IN  [NoData EXCEPT
            !.total = total_goals,
            !.completed = completed_goals,
            !.pending = total_goals - completed_goals,
            !.completion_rate = completion_rate(completed_goals, total_goals),
            !.current_streak = current_streak(coll, u, now, 0),
            !.level = get_user_level(completed_goals),
            !.monthly_improvement = monthly_improvement(coll, u, now),
            !.most_productive_time = get_time_of_day(most_productive_hour),
            !.achievements_count = achievements_count(completed_goals),
            !.weekly_progress = weekly_data(coll, u, now)]

\* log.get('completed', False); the query {'completed': True}
LogCompleted(l) == "completed" \in DOMAIN l /\ l.completed = TRUE

\* analytics: what habit_logs.find_one({'habit_id', 'user_id', 'date'}) may
\* return during one request, as a function of (habit id, date) on the
\* pairs that some log of the user has; a find_one that matches several
\* logs returns one of them, whichever the store yields first
FoundLogs(log_coll, u) ==
    LET keys == {<<l.habit_id, l.date>> :
                    l \in {x \in log_coll : x.user_id = u}}
    IN  {found \in [keys -> log_coll] :
            \A k \in keys : found[k] \in TodayLogs(log_coll, k[1], u, k[2])}

\* "log and log.get('completed', False)" for the log that the find_one of
\* a habit and a date returned
HabitDoneOn(found, h, date) ==
    /\ <<h.id, date>> \in DOMAIN found
    /\ LogCompleted(found[<<h.id, date>>])

\* analytics: habit_weekly_data, built from today backward and then
\* reversed
habit_weekly_data(user_habits, found, now) ==
    Reverse([i \in 1..WeekDays |->
                LET date == MinusDays(StartOfDay(now), i - 1) IN
                [date |-> StrftimeWeekday(date),
                 completed |->
                     Cardinality({h \in user_habits :
                                     HabitDoneOn(found, h, date)})]])

\* analytics, "for i in range(365): ... else: break": the streak of one
\* habit
habit_streak(found, h, now) ==
    LET current_date == StartOfDay(now)
        done(i) == HabitDoneOn(found, h, MinusDays(current_date, i))
    IN  CHOOSE n \in 0..365 :
            /\ n = 365 \/ ~done(n)
            /\ \A i \in 0..(n - 1) : done(i)

\* analytics: analytics_data['habits'] and ['habit_weekly_progress'];
\* the two rounded values are in tenths
habit_analytics(habit_coll, log_coll, found, u, now) ==
    LET user_habits == Habit_find_by_user_id(habit_coll, u)
        logs_of(h) ==
            {l \in log_coll : l.habit_id = h.id /\ l.user_id = u}
        streak(h) == habit_streak(found, h, now)
        streak_sum ==
            Cardinality(UNION {{<<h.id, i>> : i \in 1..streak(h)} :
                                  h \in user_habits})
        total_habit_logs ==
            Cardinality(UNION {logs_of(h) : h \in user_habits})
        completed_habit_logs ==
            Cardinality(UNION {{l \in logs_of(h) : LogCompleted(l)} :
                                  h \in user_habits})
    IN  [total |-> Cardinality(user_habits),
         active |->
             Cardinality({h \in user_habits :
                             \E l \in logs_of(h) :
                                 l.date >= MinusDays(now, WeekDays)}),
         completed_today |->
             Cardinality({h \in user_habits :
                             HabitDoneOn(found, h, StartOfDay(now))}),
         completion_rate |->
             completion_rate(completed_habit_logs, total_habit_logs),
         longest_streak |->
             IF user_habits = {} THEN 0
             ELSE CHOOSE n \in {streak(h) : h \in user_habits} :
                      \A h \in user_habits : streak(h) <= n,
         average_streak |->
             IF user_habits = {} THEN 0
             ELSE round_ratio(streak_sum, Cardinality(user_habits)),
         weekly_progress |->
             habit_weekly_data(user_habits, found, now)]

Analytics(u) ==
    \E hour \in MostProductiveHours(goals, u),
       found \in FoundLogs(habit_logs, u) :
        Reads(u, Response("analytics", u, {},
                          [analytics(goals, u, Now, hour) EXCEPT
                              !.habits =
                                  habit_analytics(habits, habit_logs, found,
                                                  u, Now)]))

(***************************************************************************)
(* Stores to analyse: each goal of a scenario was added at its time and,   *)
(* when completed, toggled at that time                                    *)
(***************************************************************************)
Entry(u, day, hour, completed) ==
    [user |-> u, time |-> Combine(day) + hour, completed |-> completed]

\* the goals collection that the n-th goal of the scenario alone leaves
ScenarioGoal(sc, n) ==
    LET id == FirstFreeId + n - 1
        form == TheOne({f \in GoalForms : f.text = "t1"})
        added == add_goal({}, sc[n].user, id, form, sc[n].time)
    IN  IF sc[n].completed
        THEN toggle_goal(added, sc[n].user, id, sc[n].time)
        ELSE added

\* the goals collection after the first n goals of the scenario
ScenarioGoals(sc, n) == UNION {ScenarioGoal(sc, i) : i \in 1..n}

\* completions on k consecutive days ending s days before today, and e
\* more on the day before the one that precedes them
StreakScenarios(today) ==
    {[i \in 1..(k + e) |->
         IF i <= k
         THEN Entry(1, today - s - (i - 1), h, TRUE)
         ELSE Entry(1, today - s - k - 1, h, TRUE)] :
        k \in 0..MaxStreakDays, s \in {0, 1}, e \in {0, 1}, h \in {0, 23}}

\* c completed and p pending goals; and c completed of 80 goals where the
\* rate lies midway between two tenths and the double decides
CountScenarios(today) ==
    {[i \in 1..(c + p) |-> Entry(1, today - 40, 9, i <= c)] :
        c \in 0..MaxCompleted, p \in 0..MaxPending}
    \cup {[i \in 1..(c + p) |-> Entry(1, today - 40, 9, i <= c)] :
             c \in 0..MaxRate, p \in 0..MaxRate}
    \cup {[i \in 1..80 |-> Entry(1, today - 40, 9, i <= c)] :
             c \in {23, 49, 51}}

\* completions at the first hour of today-30 (a), the last hour of
\* today-31 (b), the first hour of today-60 (c), the last hour of
\* today-61 (d) and on today (e)
MonthScenarios(today) ==
    {[i \in 1..(a + b + c + d + e) |->
         IF i <= a THEN Entry(1, today - 30, 0, TRUE)
         ELSE IF i <= a + b THEN Entry(1, today - 31, 23, TRUE)
         ELSE IF i <= a + b + c THEN Entry(1, today - 60, 0, TRUE)
         ELSE IF i <= a + b + c + d THEN Entry(1, today - 61, 23, TRUE)
         ELSE Entry(1, today, 0, TRUE)] :
        a \in 0..MaxPerWindow, b \in 0..MaxPerWindow, c \in 0..MaxPerWindow,
        d \in 0..MaxPerWindow, e \in 0..MaxPerWindow}

\* completions two days ago at the hours of a list
HourScenarios(today) ==
    {[i \in 1..Len(hs) |-> Entry(1, today - 2, hs[i], TRUE)] :
        hs \in {x \in UNION {[1..n -> HourSamples] : n \in 0..MaxHourGoals} :
                   \A i \in 1..(Len(x) - 1) : x[i] <= x[i + 1]}}

Scenarios(today) ==
    StreakScenarios(today) \cup CountScenarios(today)
    \cup MonthScenarios(today) \cup HourScenarios(today)

\* user 2 completed one goal at the time of the request; no goal of a
\* scenario is completed later than that
AnalyticsInit ==
    /\ users = InitialUsers
    /\ utc \in AnalyticsClocks
    /\ tz \in TzOffsets
    /\ \E sc \in Scenarios(DateOf(utc + tz)) :
           /\ \A i \in 1..Len(sc) : sc[i].time <= utc
           /\ goals = ScenarioGoals(
                          Append(sc, [user |-> 2, time |-> utc,
                                      completed |-> TRUE]), Len(sc) + 1)
           /\ next_id = FirstFreeId + Len(sc) + 1
    /\ habits = {}
    /\ habit_logs = {}
    /\ utility_bills = {}
    /\ user_preferences = {}
    /\ bills = {}
    /\ reqs = [s \in Slots |-> IdleReq]
    /\ actor = 0
    /\ resp = NoResponse
    /\ log_calls = [k \in {} |-> 0]

AnalyticsNext == \E u \in UserIds : Analytics(u)

SpecAnalytics == AnalyticsInit /\ [][AnalyticsNext]_vars

(***************************************************************************)
(* What analytics reports, stated over the goals in the store              *)
(***************************************************************************)
\* the goals of the user the response went to, and the completed ones
OwnGoals == {g \in goals : g.user_id = resp.user}
OwnCompleted == {g \in OwnGoals : g.completed}

\* the calendar day of the request, by the server's local clock
LocalToday == DateOf(utc + tz)

\* the user has a completed goal dated that calendar day
DoneOn(day) == \E g \in OwnCompleted : DateOf(g.updated_at) = day

\* C6: the goal current streak is the number of consecutive calendar days,
\* from today backward, that each have a completed goal of the user dated
\* that day; it stops at the first day without one (0 when today has
\* none), is never larger than 30, and is 3 when the completions are on
\* exactly today, today-1 and today-2.
C6_CurrentStreak ==
    resp.route = "analytics" =>
        LET streak == resp.data.current_streak IN
        /\ streak \in 0..30
        /\ \A i \in 0..(streak - 1) : DoneOn(LocalToday - i)
        /\ streak < 30 => ~DoneOn(LocalToday - streak)
        /\ {DateOf(g.updated_at) : g \in OwnCompleted}
               = {LocalToday, LocalToday - 1, LocalToday - 2} => streak = 3

\* C6 case: completions on each of the 31 days up to today, the streak
\* reported is 30
C6_Witness ==
    /\ resp.route = "analytics"
    /\ \A i \in 0..30 : DoneOn(LocalToday - i)
    /\ resp.data.current_streak = 30

\* the hours of each time-of-day bucket
BucketHours ==
    [morning |-> 5..11, afternoon |-> 12..16, evening |-> 17..20,
     night |-> (21..23) \cup (0..4)]

\* the user's completed goals whose updated_at hour is in a set of hours
CompletedInHours(hours) ==
    Cardinality({g \in OwnCompleted : HourOf(g.updated_at) \in hours})

\* C7 as stated: the most productive time-of-day is the bucket among
\* morning (5-11), afternoon (12-16), evening (17-20) and night (21-4) that
\* holds the largest number of the user's completed goals; morning when
\* there is none.
C7_BucketWithMostCompletions ==
    resp.route = "analytics" =>
        /\ resp.data.most_productive_time \in DOMAIN BucketHours
        /\ \A b \in DOMAIN BucketHours :
               CompletedInHours(BucketHours[b])
                   <= CompletedInHours(
                          BucketHours[resp.data.most_productive_time])
        /\ OwnCompleted = {} => resp.data.most_productive_time = "morning"

\* C7 amended: the most productive time-of-day is the bucket of a single
\* hour of the day in which the user completed the largest number of
\* goals (no other hour has more); morning when there is no completed goal.
C7_BucketOfBusiestHour ==
    resp.route = "analytics" =>
        IF OwnCompleted = {}
        THEN resp.data.most_productive_time = "morning"
        ELSE \E h \in 0..23 :
                 /\ CompletedInHours({h}) > 0
                 /\ \A k \in 0..23 :
                        CompletedInHours({k}) <= CompletedInHours({h})
                 /\ h \in BucketHours[resp.data.most_productive_time]

\* C7 case: two completions at 11 and one each at 12, 14 and 16; morning
\* is reported while afternoon holds three
C7_Witness ==
    /\ resp.route = "analytics"
    /\ resp.data.most_productive_time = "morning"
    /\ CompletedInHours({11}) = 2
    /\ CompletedInHours(BucketHours["afternoon"]) = 3

\* the completed goals of the user dated from day lo to day hi
CompletedInDays(lo, hi) ==
    Cardinality({g \in OwnCompleted :
                    lo <= DateOf(g.updated_at) /\ DateOf(g.updated_at) <= hi})

\* the trailing window: today-30 and later
TrailingCount == Cardinality({g \in OwnCompleted :
                                 DateOf(g.updated_at) >= LocalToday - 30})

\* the preceding 30-day window: today-60 to today-31
PrecedingCount == CompletedInDays(LocalToday - 60, LocalToday - 31)

\* r is x / y * 100 rounded to one decimal, in tenths (y > 0)
IsRoundedPercent(r, x, y) ==
    LET d == r * y - 1000 * x IN 2 * d <= y /\ 2 * d >= 0 - y

\* C8: monthly improvement is 0 when the preceding 30-day window holds no
\* completed goal, whatever the trailing window holds; otherwise it is
\* (trailing - preceding) / preceding * 100 rounded to one decimal,
\* negative when trailing < preceding; the windows are adjacent and
\* disjoint (the trailing one begins on the day after the preceding ends).
C8_MonthlyImprovement ==
    resp.route = "analytics" =>
        LET r == resp.data.monthly_improvement IN
        /\ PrecedingCount = 0 => r = 0
        /\ PrecedingCount > 0 =>
               /\ IsRoundedPercent(r, TrailingCount - PrecedingCount,
                                   PrecedingCount)
               /\ TrailingCount < PrecedingCount => r < 0

\* C8 case: a completion in the first hour of the trailing window, more
\* completions in the preceding window than in the trailing one, and a
\* quotient that needs rounding
C8_Witness ==
    /\ resp.route = "analytics"
    /\ \E g \in OwnCompleted :
           g.updated_at = Combine(LocalToday - 30)
    /\ PrecedingCount = 3
    /\ TrailingCount = 1
    /\ resp.data.monthly_improvement = 0 - 667

\* C9: analytics reports pending = total - completed with
\* 0 <= completed <= total, and a completion rate of 0 when total = 0,
\* otherwise completed / total * 100 rounded to one decimal (between 0 and
\* 100).
C9_PendingAndCompletionRate ==
    resp.route = "analytics" =>
        /\ resp.data.total = Cardinality(OwnGoals)
        /\ resp.data.completed = Cardinality(OwnCompleted)
        /\ resp.data.pending = resp.data.total - resp.data.completed
        /\ 0 <= resp.data.completed
        /\ resp.data.completed <= resp.data.total
        /\ resp.data.completion_rate \in 0..1000
        /\ resp.data.total = 0 => resp.data.completion_rate = 0
        /\ resp.data.total > 0 =>
               IsRoundedPercent(resp.data.completion_rate,
                                resp.data.completed, resp.data.total)

\* C9 case: 23 of 80 goals completed, reported as 28.7 (the double
\* 23 / 80 * 100 lies below 28.75)
C9_Witness ==
    /\ resp.route = "analytics"
    /\ resp.data.total = 80
    /\ resp.data.completed = 23
    /\ resp.data.pending = 57
    /\ resp.data.completion_rate = 287

\* the table of levels: threshold and name
LevelTable ==
    {<<0, "Newcomer">>, <<5, "Goal Starter">>, <<10, "Goal Seeker">>,
     <<25, "Goal Achiever">>, <<50, "Goal Expert">>, <<100, "Goal Master">>}

\* the threshold of a level name
ThresholdOf(level) == (CHOOSE row \in LevelTable : row[2] = level)[1]

\* C10: for a completed-goal count c the user level is the tier of the
\* highest threshold of (0 Newcomer, 5 Goal Starter, 10 Goal Seeker,
\* 25 Goal Achiever, 50 Goal Expert, 100 Goal Master) that is <= c, and no
\* smaller count has a higher tier.
C10_UserLevel ==
    resp.route = "analytics" =>
        LET c == resp.data.completed IN
        /\ \E row \in LevelTable :
               /\ row[2] = resp.data.level
               /\ row[1] <= c
               /\ \A other \in LevelTable : other[1] <= c => other[1] <= row[1]
        /\ \A smaller \in 0..c :
               ThresholdOf(get_user_level(smaller))
                   <= ThresholdOf(resp.data.level)

\* C10 case: 100 completed goals, Goal Master
C10_Witness ==
    /\ resp.route = "analytics"
    /\ resp.data.completed = 100
    /\ resp.data.level = "Goal Master"

\* the milestones in ascending order
MilestoneList == <<1, 5, 10, 15, 20, 25, 30, 40, 50, 75, 100, 150>>

\* C11: for a completed-goal count c the achievement count is the number
\* of entries of (1, 5, 10, 15, 20, 25, 30, 40, 50, 75, 100, 150) that are
\* <= c: the last entry it counts is <= c and the next one is > c; 0 for
\* c = 0 and 12 for c >= 150.
C11_AchievementsCount ==
    resp.route = "analytics" =>
        LET c == resp.data.completed
            n == resp.data.achievements_count
        IN  /\ n \in 0..Len(MilestoneList)
            /\ n > 0 => MilestoneList[n] <= c
            /\ n < Len(MilestoneList) => c < MilestoneList[n + 1]
            /\ c = 0 => n = 0
            /\ c >= 150 => n = 12

\* C11 case: 150 completed goals, all 12 milestones counted
C11_Witness ==
    /\ resp.route = "analytics"
    /\ resp.data.completed = 150
    /\ resp.data.achievements_count = 12

\* C12: weekly goal progress has exactly 7 entries, oldest day first
\* (today-6 ... today); the entry of day d carries d's weekday and the
\* number of the user's completed goals whose updated_at falls within
\* calendar day d.
C12_WeeklyProgress ==
    resp.route = "analytics" =>
        LET week == resp.data.weekly_progress IN
        /\ Len(week) = 7
        /\ \A i \in 1..7 :
               /\ week[i].completed =
                      CompletedInDays(LocalToday - (7 - i),
                                      LocalToday - (7 - i))
               /\ week[i].date =
                      WeekdayNames[((LocalToday - (7 - i)) % 7) + 1]

\* C12 case: completions today and on the two days before, none on the
\* four days before those
C12_Witness ==
    /\ resp.route = "analytics"
    /\ \A i \in 1..4 : resp.data.weekly_progress[i].completed = 0
    /\ \A i \in 5..7 : resp.data.weekly_progress[i].completed = 1

(***************************************************************************)
(* The habits list view                                                    *)
(***************************************************************************)
\* the days a habit was logged without a break, past a year
MaxRunDays == 366

\* habits: the logs of one habit of the user
LogsOfHabit(coll, habit_id, u) ==
    {l \in coll : l.habit_id = habit_id /\ l.user_id = u}

\* habits: how many days before today a log is dated; the streak loop asks
\* for the dates today, today - 1 day, ...
DaysBack(today, l) == (today - l.date) \div HoursPerDay

\* the logs a find_one of the streak loop can return
OnScannedDay(today, l) ==
    l.date <= today /\ MinusDays(today, DaysBack(today, l)) = l.date

\* habits, "while True: ... else: break": the values the streak can end
\* with.  The loop passes the day n back when find_one returns a log with
\* completed_count >= target_count, and ends there when find_one returns
\* None or a log below the target; find_one returns any log of that date.
habit_streaks(logs, target_count, today) ==
    LET met   == {DaysBack(today, l) :
                     l \in {x \in logs : /\ OnScannedDay(today, x)
                                         /\ x.completed_count >= target_count}}
        unmet == {DaysBack(today, l) :
                     l \in {x \in logs : /\ OnScannedDay(today, x)
                                         /\ x.completed_count < target_count}}
        ends  == (0..Cardinality(met)) \ (met \ unmet)
    IN  {n \in ends : \A m \in 0..(n - 1) : m \in met}

\* habits, "for log in all_logs: total_completions += ...": one unit for
\* every count of every log
total_completions(logs) ==
    Cardinality(UNION {{<<l.id, i>> : i \in 1..l.completed_count} : l \in logs})

\* habits: the habit_stats entries the view can build for one habit
habit_stats(h, u, today) ==
    LET logs == LogsOfHabit(habit_logs, h.id, u) IN
    {[habit |-> h.id,
      completed_today |-> IF today_log = {} THEN 0
                          ELSE TheOne(today_log).completed_count,
      target_met |-> (IF today_log = {} THEN 0
                      ELSE TheOne(today_log).completed_count)
                         >= h.target_count,
      streak |-> streak,
      total_completions |-> total_completions(logs)] :
        today_log \in FindOne(TodayLogs(habit_logs, h.id, u, today)),
        streak \in habit_streaks(logs, h.target_count, today)}

\* habits: one entry for every active habit of the user
Habits(u) ==
    LET user_habits == Habit_find_by_user_id(habits, u)
        today       == StartOfDay(Now)
    IN  \E entry \in [user_habits ->
                         UNION {habit_stats(h, u, today) : h \in user_habits}] :
            /\ \A h \in user_habits : entry[h] \in habit_stats(h, u, today)
            /\ Reads(u, Response("habits", u,
                                 {entry[h] : h \in user_habits}, NoData))

\* the log that count log_habit requests of one day leave
LoggedTimes(id, habit_id, u, now, count) ==
    IF count = 1 THEN HabitLogData(id, habit_id, u, now)
    ELSE TheOne(IncCompletedCount({HabitLogData(id, habit_id, u, now)}, id))

\* the logs of a habit logged count times a day on run consecutive days,
\* the last of them the day `last`, and once more two days before the run
RunLogs(habit_id, u, last, run, count, first_id, older) ==
    {LoggedTimes(first_id + i, habit_id, u, Combine(last - i), count) :
        i \in 0..(run - 1)}
    \cup {HabitLogData(first_id + run, habit_id, u, Combine(last - run - 1)) :
             x \in {1} \cap older}

\* the clock of the view: late enough for the habits to be a run older
HabitsClocks == {StartUtc + Combine(MaxRunDays + 1)}

HabitsInit ==
    /\ users = InitialUsers
    /\ utc \in HabitsClocks
    /\ tz \in TzOffsets
    /\ goals = {}
    /\ \E form \in HabitForms, run \in 0..MaxRunDays, skip \in {0, 1},
          count \in 1..MaxCount, older \in {{}, {1}} :
           /\ habits = {HabitData(FirstFreeId, 1, form, StartUtc),
                        HabitData(FirstFreeId + 1, 2, form, StartUtc)}
           /\ habit_logs =
                  RunLogs(FirstFreeId, 1, DateOf(utc + tz) - skip, run, count,
                          FirstFreeId + 3, older)
                  \cup {HabitLogData(FirstFreeId + 2, FirstFreeId + 1, 2,
                                     utc + tz)}
           /\ next_id = FirstFreeId + 4 + run
    /\ utility_bills = {}
    /\ user_preferences = {}
    /\ bills = {}
    /\ reqs = [s \in Slots |-> IdleReq]
    /\ actor = 0
    /\ resp = NoResponse
    /\ log_calls = [k \in {} |-> 0]

HabitsViewNext == \E u \in UserIds : Habits(u)

SpecHabitsView == HabitsInit /\ [][HabitsViewNext]_vars

\* the days on which the habit has a log that meets its target
DaysMet(h) ==
    {DateOf(l.date) : l \in {x \in habit_logs : /\ x.habit_id = h.id
                                                /\ x.completed_count >=
                                                       h.target_count}}

\* the consecutive days, from today backward, that are all in the set
RunFrom(today, days) ==
    LET gaps == {n \in 0..Cardinality(days) : today - n \notin days}
    IN  CHOOSE n \in gaps : \A m \in gaps : n <= m

\* C13: in the habits list view a habit's streak is the number of
\* consecutive days, starting today and going backward, that each have a
\* log of that habit with completed_count >= target_count; the scan covers
\* at most 365 days back, so the streak reported never exceeds 365.
C13_HabitStreak ==
    resp.route = "habits" =>
        \A e \in resp.records :
            \A h \in {x \in habits : x.id = e.habit} :
                LET run == RunFrom(LocalToday, DaysMet(h)) IN
                e.streak = IF run > 365 THEN 365 ELSE run

\* the streak the view reports is the run of days, however long
HabitStreakIsRun ==
    resp.route = "habits" =>
        \A e \in resp.records :
            \A h \in {x \in habits : x.id = e.habit} :
                e.streak = RunFrom(LocalToday, DaysMet(h))

(***************************************************************************)
(* Users: register, update_profile, change_password, Google login          *)
(***************************************************************************)
\* users a run registers or creates by Google login
MaxNewUsers == 2

\* RegisterForm fields as posted
RegisterForms ==
    {[username |-> "carol", email |-> "carol@x", password |-> "secret1",
      password2 |-> "secret1"],
     [username |-> "alice_1", email |-> "dave@x", password |-> "secret1",
      password2 |-> "secret1"],
     [username |-> "alice", email |-> "carol@x", password |-> "secret1",
      password2 |-> "secret1"],
     [username |-> "carol", email |-> "bob@x", password |-> "secret1",
      password2 |-> "secret1"],
     [username |-> "carol", email |-> "carol@x", password |-> "short",
      password2 |-> "short"],
     [username |-> "carol", email |-> "carol@x", password |-> "secret1",
      password2 |-> "secret2"],
     [username |-> "bob", email |-> "carol@x", password |-> "secret1",
      password2 |-> "secret1"],
     [username |-> "carol", email |-> "carol", password |-> "secret1",
      password2 |-> "secret1"]}

\* update_profile: the username and email fields as posted
ProfileUsernames == {"", " carol ", "bob"}
ProfileEmails == {"  ", "carol@x", "bob@x"}

\* change_password: the fields as posted
PasswordForms ==
    {[current_password |-> "secret1", new_password |-> "secret2",
      confirm_password |-> "secret2"],
     [current_password |-> "wrong11", new_password |-> "secret2",
      confirm_password |-> "secret2"],
     [current_password |-> "secret1", new_password |-> "secret2",
      confirm_password |-> "short"],
     [current_password |-> "secret1", new_password |-> "short",
      confirm_password |-> "short"],
     [current_password |-> "", new_password |-> "secret2",
      confirm_password |-> "secret2"]}

\* the userinfo documents Google returns; name "none": the document has no
\* name
GoogleInfos ==
    {[id |-> "g1", email |-> "alice@x", name |-> "Alice"],
     [id |-> "g2", email |-> "carol@x", name |-> "Alice"],
     [id |-> "g3", email |-> "dave@x", name |-> "Alice"],
     [id |-> "g4", email |-> "erin@x", name |-> "none"]}

\* str.strip() on the posted samples
Strip(text) ==
    CASE text = " carol " -> "carol"
      [] text = "  " -> ""
      [] OTHER -> text

\* .replace(' ', '_').lower() on the names Google returns
ReplaceLower(text) ==
    CASE text = "Alice" -> "alice"
      [] text = "Alice A" -> "alice_a"
      [] OTHER -> text

\* the Email() validator on the posted samples
EmailValid(email) == email \in {"alice@x", "bob@x", "carol@x", "dave@x"}

\* User.check_password
check_password(user, password) ==
    IF user.password_hash = "none" THEN FALSE
    ELSE user.password_hash = generate_password_hash(password)

\* a lookup by Google id that finds nobody
find_nobody(coll, google_id) == {}

\* User.find_by_username / find_by_email / find_by_google_id: the documents
\* find_one can return
User_find_by_username(coll, username) == {d \in coll : d.username = username}
User_find_by_email(coll, email) == {d \in coll : d.email = email}
User_find_by_google_id(coll, google_id) ==
    {d \in coll : d.google_id = google_id}

\* RegisterForm: validate_on_submit
RegisterFormValid(form) ==
    /\ Len(form.username) >= 4 /\ Len(form.username) <= 20
    /\ EmailValid(form.email)
    /\ Len(form.password) >= 6
    /\ form.password2 = form.password

\* register: a user is saved
register_saves(coll, form) ==
    /\ RegisterFormValid(form)
    /\ User_find_by_username(coll, form.username) = {}
    /\ User_find_by_email(coll, form.email) = {}

\* register: the users collection it leaves
register(coll, form, id, now) ==
    IF register_saves(coll, form)
    THEN coll \cup {UserDoc(id, form.username, form.email,
                            generate_password_hash(form.password), "none",
                            now)}
    ELSE coll

\* a check for another holder that never finds one
TakenByNobody(coll, u, field, value) == {}

\* update_profile: find_one({field: value, '_id': {'$ne': current_user.id}})
TakenByAnother(coll, u, field, value) ==
    {d \in coll : d[field] = value /\ d.id # u}

\* update_profile: the users collection it leaves
update_profile(coll, u, username_field, email_field) ==
    LET username == Strip(username_field)
        email    == Strip(email_field)
    IN  IF username = "" \/ email = "" THEN coll
        ELSE IF TakenByAnother(coll, u, "username", username) # {} THEN coll
        ELSE IF TakenByAnother(coll, u, "email", email) # {} THEN coll
        ELSE {IF d.id = u
              THEN [d EXCEPT !.username = username, !.email = email]
              ELSE d : d \in coll}

\* a length check that lets every password through
AnyLength(password) == TRUE

\* change_password: len(new_password) >= 6
LongEnough(password) == Len(password) >= 6

\* change_password: the users collection it leaves
change_password(coll, u, current_password, new_password, confirm_password) ==
    LET current_user == TheOne({d \in coll : d.id = u}) IN
    IF current_user.google_id # "none" THEN coll
    ELSE IF "" \in {current_password, new_password, confirm_password} THEN coll
    ELSE IF ~check_password(current_user, current_password) THEN coll
    ELSE IF new_password # confirm_password THEN coll
    ELSE IF ~LongEnough(new_password) THEN coll
    ELSE {IF d.id = u
          THEN [d EXCEPT !.password_hash = generate_password_hash(new_password)]
          ELSE d : d \in coll}

\* a search for a free username that starts one too low
ZeroCounter == 1 - 1

\* google_logged_in, "counter = 1"
FirstCounter == 1

\* google_logged_in, "while existing_user": the first of original_counter,
\* original_(counter + 1), ... that no user has
RECURSIVE unique_username(_, _, _)
unique_username(coll, original_username, counter) ==
    LET username == original_username \o "_" \o ToString(counter) IN
    IF User_find_by_username(coll, username) = {} THEN username
    ELSE unique_username(coll, original_username, counter + 1)

\* google_logged_in: the username of a user it creates
google_username(coll, google_info) ==
    LET username == ReplaceLower(IF google_info.name = "none"
                                 THEN google_info.email ELSE google_info.name)
    IN  IF User_find_by_username(coll, username) = {} THEN username
        ELSE unique_username(coll, username, FirstCounter)

\* google_logged_in: the users collection it leaves and the user it logs
\* in; by_google and by_email are what the two find_one calls returned
google_logged_in(coll, google_info, by_google, by_email, id, now) ==
    IF by_google # {}
    THEN [users |-> coll, user |-> TheOne(by_google).id]
    ELSE IF by_email # {}
    THEN [users |-> {IF d.id = TheOne(by_email).id
                     THEN [TheOne(by_email) EXCEPT !.google_id = google_info.id]
                     ELSE d : d \in coll},
          user |-> TheOne(by_email).id]
    ELSE [users |-> coll \cup {UserDoc(id, google_username(coll, google_info),
                                       google_info.email, "none",
                                       google_info.id, now)},
          user |-> id]

\* the users a run may still add
NewUserAllowed == next_id < FirstFreeId + MaxNewUsers

UserStep(u) ==
    /\ actor' = u
    /\ UNCHANGED <<goals, habits, habit_logs, utility_bills, user_preferences,
                   bills, utc, tz, reqs, log_calls>>

\* register (POST), by a client that is not logged in
Register(form) ==
    /\ register_saves(users, form) => NewUserAllowed
    /\ users' = register(users, form, next_id, UtcNow)
    /\ next_id' = IF register_saves(users, form) THEN next_id + 1 ELSE next_id
    /\ UNCHANGED resp
    /\ UserStep(0)

UpdateProfile(u, username_field, email_field) ==
    /\ users' = update_profile(users, u, username_field, email_field)
    /\ UNCHANGED <<next_id, resp>>
    /\ UserStep(u)

ChangePassword(u, current_password, new_password, confirm_password) ==
    /\ users' = change_password(users, u, current_password, new_password,
                                confirm_password)
    /\ UNCHANGED <<next_id, resp>>
    /\ UserStep(u)

\* the OAuth callback with a token and a userinfo document
GoogleLoggedIn(google_info) ==
    \E by_google \in FindOne(User_find_by_google_id(users, google_info.id)),
       by_email \in FindOne(User_find_by_email(users, google_info.email)) :
        LET out == google_logged_in(users, google_info, by_google, by_email,
                                    next_id, UtcNow)
            created == by_google = {} /\ by_email = {}
        IN  /\ created => NewUserAllowed
            /\ users' = out.users
            /\ next_id' = IF created THEN next_id + 1 ELSE next_id
            /\ resp' = Response("google_logged_in", out.user, {}, NoData)
            /\ UserStep(out.user)

UserRoutes ==
    \/ \E form \in RegisterForms : Register(form)
    \/ \E u \in UserIds, username \in ProfileUsernames,
          email \in ProfileEmails : UpdateProfile(u, username, email)
    \/ \E google_info \in GoogleInfos : GoogleLoggedIn(google_info)

PasswordRoutes ==
    \E u \in UserIds, form \in PasswordForms :
        ChangePassword(u, form.current_password, form.new_password,
                       form.confirm_password)

\* the server's zone plays no part in these routes
UsersInit == Init /\ tz = 0

SpecUsers == UsersInit /\ [][UserRoutes]_vars

\* the users with that google_id, with that email, with that username
WithGoogleId(coll, g) == {d \in coll : d.google_id = g}
WithEmail(coll, e) == {d \in coll : d.email = e}
Taken(coll, name) == \E d \in coll : d.username = name

\* C14: a Google login with external id g and email e logs in the user
\* whose google_id is g if there is one (nothing is written); otherwise the
\* user whose email is e, whose google_id becomes g; otherwise a new user
\* with google_id g and email e.  After the login exactly one user has
\* google_id g, the one logged in, so the same login repeated resolves to
\* that user by its google_id and creates nobody.
C14_GoogleLoginResolves ==
    [][\A info \in GoogleInfos :
          GoogleLoggedIn(info) =>
              LET by_g == WithGoogleId(users, info.id)
                  by_e == WithEmail(users, info.email)
                  user == resp'.user
              IN  /\ by_g # {} =>
                         /\ user \in {d.id : d \in by_g}
                         /\ users' = users
                  /\ (by_g = {} /\ by_e # {}) =>
                         \E d \in by_e :
                             /\ user = d.id
                             /\ users' = (users \ {d}) \cup
                                         {[d EXCEPT !.google_id = info.id]}
                  /\ (by_g = {} /\ by_e = {}) =>
                         /\ user \notin UserIds
                         /\ \E d \in users' :
                                /\ d.id = user
                                /\ d.google_id = info.id
                                /\ d.email = info.email
                                /\ users' = users \cup {d}
                  /\ {d.id : d \in WithGoogleId(users', info.id)} = {user}
      ]_vars

\* C14 case: a login linked the registered user alice to g1, another one
\* created the user it has just logged in again
C14_Witness ==
    /\ resp.route = "google_logged_in"
    /\ \E d \in users : d.id = 1 /\ d.google_id = "g1"
    /\ \E d \in users : /\ d.id = resp.user
                        /\ d.id >= FirstFreeId
                        /\ d.google_id = "g2"
                        /\ d.email = "carol@x"

\* C15: a user that a Google login creates gets its derived username when
\* no user has it, else the derived username followed by _k for the
\* smallest k >= 1 such that no user has that one.
C15_DeduplicatedUsername ==
    [][\A info \in GoogleInfos :
          (GoogleLoggedIn(info) /\ users' # users /\ resp'.user \notin UserIds)
          =>
              LET name == ReplaceLower(IF info.name = "none" THEN info.email
                                       ELSE info.name)
                  assigned == (CHOOSE d \in users' : d.id = resp'.user).username
                  suffixed(k) == name \o "_" \o ToString(k)
              IN  IF ~Taken(users, name) THEN assigned = name
                  ELSE \E k \in 1..Cardinality(users) :
                           /\ assigned = suffixed(k)
                           /\ ~Taken(users, assigned)
                           /\ \A j \in 1..(k - 1) : Taken(users, suffixed(j))
      ]_vars

\* C15 case: alice and alice_1 were taken, a Google login created alice_2;
\* another created a user under its derived name
C15_Witness ==
    /\ \E d \in users : d.username = "alice_2" /\ d.google_id # "none"
    /\ \E d \in users : d.username = "alice_1"
    /\ \E d \in users : d.username = "alice"

\* C16: after any sequence of register, update_profile and Google login
\* requests, one at a time, no two users have the same username and no two
\* have the same email.
C16_UniqueUsernameAndEmail ==
    \A a \in users, b \in users :
        a.id # b.id => a.username # b.username /\ a.email # b.email

\* C16 case: a registered user, a user created by Google login and a user
\* that has changed its username and email
C16_Witness ==
    /\ \E d \in users : d.id < FirstFreeId /\ d.username = "carol"
                        /\ d.email = "carol@x"
    /\ \E d \in users : d.id >= FirstFreeId /\ d.google_id # "none"
    /\ \E d \in users : d.id >= FirstFreeId /\ d.password_hash # "none"

(***************************************************************************)
(* Requests that validation rejects                                        *)
(***************************************************************************)
\* the requests of these runs: one goal form, register forms whose two
\* passwords agree, profile updates that name bob or nothing,
\* the Google login that links alice, account deletions in which no store
\* call fails
AccountNext ==
    \/ \E form \in {x \in RegisterForms : x.password = x.password2} :
           Register(form)
    \/ \E u \in UserIds, username \in {"", "bob"}, email \in {"  ", "bob@x"} :
           UpdateProfile(u, username, email)
    \/ PasswordRoutes
    \/ \E google_info \in {i \in GoogleInfos : i.id = "g1"} :
           GoogleLoggedIn(google_info)
    \/ \E u \in UserIds, f \in {x \in GoalForms : x.text = "t1"} : AddGoal(u, f)
    \/ \E u \in UserIds, confirm \in ConfirmTexts : DeleteAllGoals(u, confirm)
    \/ \E u \in UserIds, confirm \in ConfirmTexts :
           DeleteAccount(u, confirm, DeleteAccountCalls + 1)

SpecAccount == UsersInit /\ [][AccountNext]_vars

\* the collections of the store
Collections ==
    <<users, goals, habits, habit_logs, utility_bills, user_preferences, bills>>

\* the stored document of a user
UserOf(u) == CHOOSE d \in users : d.id = u

\* C18: a request that validation rejects leaves every collection
\* unchanged, that is, a step that changes a collection is none of these:
\* delete_account and delete_all_goals with a confirm text that
\* is not 'delete' in any case; change_password for a Google-linked
\* account, with a wrong current password, with new passwords that differ
\* or with a new password shorter than 6; update_profile with an empty
\* field or with a username or email that another user has; register with
\* a username or email that a user has.
C18_RejectedRequestsChangeNothing ==
    [][~(UNCHANGED Collections) =>
       /\ \A u \in UserIds, c \in ConfirmTexts :
              c \notin {"delete", "DELETE"} =>
                  /\ ~DeleteAllGoals(u, c)
                  /\ ~DeleteAccount(u, c, DeleteAccountCalls + 1)
       /\ \A u \in UserIds, f \in PasswordForms :
              (\/ UserOf(u).google_id # "none"
               \/ UserOf(u).password_hash #
                      generate_password_hash(f.current_password)
               \/ f.new_password # f.confirm_password
               \/ Len(f.new_password) < 6)
              => ~ChangePassword(u, f.current_password, f.new_password,
                                 f.confirm_password)
       /\ \A u \in UserIds, n \in ProfileUsernames, e \in ProfileEmails :
              (\/ Strip(n) = "" \/ Strip(e) = ""
               \/ \E d \in users : d.id # u /\ d.username = Strip(n)
               \/ \E d \in users : d.id # u /\ d.email = Strip(e))
              => ~UpdateProfile(u, n, e)
       /\ \A f \in RegisterForms :
              (\/ \E d \in users : d.username = f.username
               \/ \E d \in users : d.email = f.email)
              => ~Register(f)
      ]_vars

\* C18 case: a store with a goal, a Google-linked user and a user that has
\* changed its password, where the last request was one by user 2 and user
\* 2 is unchanged
C18_Witness ==
    /\ goals # {}
    /\ \E d \in users : d.google_id # "none"
    /\ \E d \in users : d.password_hash = generate_password_hash("secret2")
    /\ actor = 2
    /\ \E d \in users : d.id = 2 /\ d \in InitialUsers

(***************************************************************************)
(* What the routes that take an id answer                                  *)
(***************************************************************************)
\* a redirect with a flashed message, a rendered page, a JSON body
Redirect(to, flash) == [body |-> "redirect " \o to, flash |-> flash, data |-> {}]
Render(page, data) == [body |-> "render " \o page, flash |-> "none", data |-> data]
Json(success, message, data) ==
    [body |-> IF success THEN "json success" ELSE "json failure",
     flash |-> message, data |-> data]

\* str.title() on the bill types
Title(text) ==
    CASE text = "milk" -> "Milk"
      [] text = "water" -> "Water"
      [] OTHER -> text

\* edit_goal (POST), toggle_goal, delete_goal: what the requester gets
goal_response(route, coll, u, goal_id, form) ==
    LET owned == OwnedGoals(Goal_find_by_id(coll, goal_id), u) IN
    IF owned = {} THEN Redirect("index", "Goal not found!")
    ELSE CASE route = "edit_goal" ->
                IF GoalFormValid(form)
                THEN Redirect("index", "Goal updated successfully!")
                ELSE Render("edit_goal.html", owned)
           [] route = "toggle_goal" -> Redirect("index", "none")
           [] route = "delete_goal" ->
                Redirect("index", "Goal deleted successfully!")

\* log_habit, get_habit, edit_habit, delete_habit: what the requester gets
habit_response(route, coll, u, habit_id) ==
    LET found == FindHabit(coll, habit_id, u) IN
    CASE route = "log_habit" ->
           IF found = {} THEN Json(FALSE, "Habit not found", {})
           ELSE Json(TRUE, "Progress logged successfully", {})
      [] route = "get_habit" ->
           IF found = {} THEN Json(FALSE, "Habit not found", {})
           ELSE Json(TRUE, "none", get_habit(found))
      [] route = "edit_habit" ->
           IF found = {} THEN Redirect("habits", "Habit not found")
           ELSE Redirect("habits", "Habit updated successfully!")
      [] route = "delete_habit" ->
           IF found = {} THEN Json(FALSE, "Habit not found", {})
           ELSE Json(TRUE, "Habit deleted successfully", {})

\* get_bill, edit_bill, delete_bill: what the requester gets
bill_response(route, coll, u, bill_id, form) ==
    LET found == FindBill(coll, bill_id, u) IN
    CASE route = "get_bill" ->
           IF found = {} THEN Json(FALSE, "Bill not found", {})
           ELSE Json(TRUE, "none", get_bill(found))
      [] route = "edit_bill" ->
           IF found = {} THEN Redirect("bills", "Bill not found")
           ELSE Redirect("bills", Title(form.bill_type) \o
                                      " bill updated successfully!")
      [] route = "delete_bill" ->
           IF found = {} THEN Json(FALSE, "Bill not found", {})
           ELSE Json(TRUE, "Bill deleted successfully", {})

\* the users that add documents in these runs; every user makes requests
\* that name ids
Owners == {u \in UserIds : u = 1}

\* one form for each kind of document to add and to edit, and the ten
\* routes that take an id
ForeignNext ==
    \/ \E u \in Owners :
        \/ \E f \in {x \in GoalForms : x.text = "t1"} : AddGoal(u, f)
        \/ \E f \in DailyHabitForms : AddHabit(u, f)
        \/ \E f \in {x \in BillForms : x.date # NoDate} : AddBill(u, f)
    \/ \E u \in UserIds :
        \/ \E id \in GoalIds, f \in {x \in GoalForms : x.text = "t2"} :
               EditGoal(u, id, f)
        \/ \E id \in GoalIds : ToggleGoal(u, id)
        \/ \E id \in GoalIds : DeleteGoal(u, id)
        \/ \E id \in HabitIds : LogHabit(u, id)
        \/ \E id \in HabitIds : GetHabit(u, id)
        \/ \E id \in HabitIds, f \in HabitForms \ DailyHabitForms :
               EditHabit(u, id, f)
        \/ \E id \in HabitIds : DeleteHabit(u, id)
        \/ \E id \in BillIds : GetBill(u, id)
        \/ \E id \in BillIds, f \in {x \in BillForms : x.date = NoDate} :
               EditBill(u, id, f)
        \/ \E id \in BillIds : DeleteBill(u, id)

SpecForeign == UsersInit /\ [][ForeignNext]_vars

\* the ids of the documents of a collection that other users own
IdsOfOthers(coll, u) == {d.id : d \in {x \in coll : x.user_id # u}}

\* C17: for edit_goal, toggle_goal, delete_goal, log_habit, get_habit,
\* edit_habit, delete_habit, get_bill, edit_bill and delete_bill a request
\* that names a document of another user gets the response that the same
\* request gets with an id that no document has, and neither request
\* changes a collection.
C17_ForeignIdIsNotFound ==
    [][\A u \in UserIds :
          /\ \A id \in IdsOfOthers(goals, u), f \in GoalForms,
                route \in {"edit_goal", "toggle_goal", "delete_goal"} :
                 goal_response(route, goals, u, id, f) =
                     goal_response(route, goals, u, next_id, f)
          /\ \A id \in IdsOfOthers(habits, u),
                route \in {"log_habit", "get_habit", "edit_habit",
                           "delete_habit"} :
                 habit_response(route, habits, u, id) =
                     habit_response(route, habits, u, next_id)
          /\ \A id \in IdsOfOthers(utility_bills, u), f \in BillForms,
                route \in {"get_bill", "edit_bill", "delete_bill"} :
                 bill_response(route, utility_bills, u, id, f) =
                     bill_response(route, utility_bills, u, next_id, f)
          /\ ~(UNCHANGED Collections) =>
                 /\ \A id \in IdsOfOthers(goals, u) \cup {next_id} :
                        /\ \A f \in GoalForms : ~EditGoal(u, id, f)
                        /\ ~ToggleGoal(u, id)
                        /\ ~DeleteGoal(u, id)
                 /\ \A id \in IdsOfOthers(habits, u) \cup {next_id} :
                        /\ ~LogHabit(u, id)
                        /\ ~GetHabit(u, id)
                        /\ \A f \in HabitForms : ~EditHabit(u, id, f)
                        /\ ~DeleteHabit(u, id)
                 /\ \A id \in IdsOfOthers(utility_bills, u) \cup {next_id} :
                        /\ ~GetBill(u, id)
                        /\ \A f \in BillForms : ~EditBill(u, id, f)
                        /\ ~DeleteBill(u, id)
      ]_vars

\* C17 case: user 2 has just asked for a habit with an id that is user 1's
\* and got nothing, in a store where user 1 owns a habit and a bill
C17_Witness ==
    /\ resp.route = "get_habit" /\ resp.user = 2 /\ resp.records = {}
    /\ actor = 2
    /\ \E h \in habits : h.user_id = 1
    /\ \E b \in utility_bills : b.user_id = 1

(***************************************************************************)
(* Bill dates, written and read back                                       *)
(***************************************************************************)
\* bills a run adds
MaxBills == 1

\* the days typed into the date field: the first day of the calendar, a day
\* long past, yesterday, today and tomorrow by the clock's date
BillDates == {0, 59, DateOf(StartUtc) - 1, DateOf(StartUtc), DateOf(StartUtc) + 1}

\* bill forms with each of the days, and one with no date
DatedBillForms ==
    {[bill_type |-> "milk", amount |-> 10, consumption |-> 2,
      unit |-> "liters", notes |-> "none", date |-> d] :
        d \in BillDates \cup {NoDate}}

\* a clock late enough in the day for the server's zone to be a day ahead
BillsInit ==
    /\ InitStore
    /\ utc = StartUtc + TickHours
    /\ tz \in TzOffsets
    /\ reqs = [s \in Slots |-> IdleReq]
    /\ actor = 0
    /\ resp = NoResponse
    /\ log_calls = [k \in {} |-> 0]

BillsNext ==
    \E u \in UserIds :
        \/ \E f \in DatedBillForms :
               /\ next_id < FirstFreeId + MaxBills
               /\ AddBill(u, f)
        \/ \E id \in BillIds, f \in DatedBillForms : EditBill(u, id, f)
        \/ \E id \in BillIds : GetBill(u, id)
        \/ \E t \in BillTypes : FindBillsByUserAndType(u, t)

SpecBills == BillsInit /\ [][BillsNext]_vars

\* the date a bill form stores: the day typed, or the server's today
DateStored(f) == IF f.date = NoDate THEN LocalToday ELSE f.date

\* what both reads of a store give as the date of the bill with that id
ReadsBackAs(coll, u, id, bill_type, d) ==
    /\ \E b \in UtilityBill_find_by_user_and_type(coll, u, bill_type, Now) :
           b.id = id /\ b.date = d
    /\ \E b \in get_bill(FindBill(coll, id, u)) : b.id = id /\ b.date = d

\* C19: a bill stored with date d by add_bill or by edit_bill reads back
\* with date d, never the day before or after, through
\* UtilityBill.find_by_user_and_type and through get_bill.
C19_BillDateRoundTrip ==
    [][\A u \in UserIds, f \in DatedBillForms :
          /\ AddBill(u, f) =>
                 ReadsBackAs(utility_bills', u, next_id, f.bill_type,
                             DateStored(f))
          /\ \A id \in {b.id : b \in {x \in utility_bills : x.user_id = u}} :
                 EditBill(u, id, f) =>
                     ReadsBackAs(utility_bills', u, id, f.bill_type,
                                 DateStored(f))
      ]_vars

\* C19 case: on a server whose zone is ahead of UTC, late in the day,
\* get_bill has returned a bill with yesterday's date, which the store
\* holds as that day's midnight
C19_Witness ==
    /\ resp.route = "get_bill"
    /\ tz > 0
    /\ \E r \in resp.records :
           /\ r.date = DateOf(StartUtc) - 1
           /\ \E b \in utility_bills :
                  b.id = r.id /\ b.date = Combine(DateOf(StartUtc) - 1)

(***************************************************************************)
(* What the save methods write                                             *)
(***************************************************************************)
\* one form of each kind, saved by user 1 or by a new user, with the clock
\* advancing between requests
SavesNext ==
    \/ \E u \in Owners :
        \/ \E f \in {x \in GoalForms : x.text = "t1"} : AddGoal(u, f)
        \/ \E id \in GoalIds : ToggleGoal(u, id)
        \/ \E f \in DailyHabitForms : AddHabit(u, f)
        \/ \E id \in HabitIds : LogHabit(u, id)
        \/ \E f \in {x \in BillForms : x.date # NoDate} : AddBill(u, f)
    \/ \E form \in {x \in RegisterForms : x.username = "alice_1"} :
           Register(form)
    \/ \E google_info \in {i \in GoogleInfos : i.id \in {"g1", "g2"}} :
           GoogleLoggedIn(google_info)
    \/ Tick

SpecSaves == UsersInit /\ [][SavesNext]_vars

\* the documents a step writes into a collection: those it holds after
\* the step and not before
Written(old, new) == new \ old

\* the documents a step writes through Habit.save, UtilityBill.save,
\* User.save or HabitLog.save
WrittenBesideGoals ==
    Written(habits, habits') \cup Written(utility_bills, utility_bills')
        \cup Written(users, users')

\* C20 as stated: every save of a Goal, Habit, UtilityBill or User sets
\* the stored updated_at to the time of the save; a HabitLog gets none.
C20_EverySaveStampsUpdatedAt ==
    [][/\ \A d \in Written(goals, goals') \cup WrittenBesideGoals :
              "updated_at" \in DOMAIN d /\ d.updated_at = UtcNow
       /\ \A d \in Written(habit_logs, habit_logs') :
              "updated_at" \notin DOMAIN d
      ]_vars

\* C20: every Goal.save sets the stored updated_at to the time of the
\* save; Habit.save, UtilityBill.save, User.save and HabitLog.save store no
\* updated_at at all.
C20_OnlyGoalSaveStampsUpdatedAt ==
    [][/\ \A d \in Written(goals, goals') :
              "updated_at" \in DOMAIN d /\ d.updated_at = UtcNow
       /\ \A d \in WrittenBesideGoals \cup Written(habit_logs, habit_logs') :
              "updated_at" \notin DOMAIN d
      ]_vars

\* C20 case: a goal saved again after the clock advanced, beside a habit,
\* a habit log, a user saved by Google login
C20_Witness ==
    /\ \E g \in goals : g.updated_at > g.created_at /\ g.updated_at = utc
    /\ habits # {}
    /\ habit_logs # {}
    /\ \E d \in users : d.google_id # "none"

(***************************************************************************)
(* The filtered goal list                                                  *)
(***************************************************************************)
\* add_goal requests behind a store whose goal list is read
MaxListed == 2

\* status values of the query string: the two the route knows and another
ListStatusFilters == StatusFilters \cup {"all"}

\* the stores that up to MaxListed add_goal requests of the two users
\* leave, each added goal toggled or not
ListInit ==
    /\ users = InitialUsers
    /\ utc = StartUtc
    /\ tz = 0
    /\ \E seeds \in UNION {[1..n -> {s \in Seeds : s.route = "add_goal"}] :
                              n \in 0..MaxListed} :
           /\ goals = SeededGoals(seeds, Len(seeds))
           /\ next_id = FirstFreeId + Len(seeds)
    /\ habits = {}
    /\ utility_bills = {}
    /\ habit_logs = {}
    /\ user_preferences = {}
    /\ bills = {}
    /\ reqs = [s \in Slots |-> IdleReq]
    /\ actor = 0
    /\ resp = NoResponse
    /\ log_calls = [k \in {} |-> 0]

\* one request for the goal list, by either user, with any filters
ListNext ==
    /\ resp = NoResponse
    /\ \E u \in UserIds, c \in CategoryFilters, p \in PriorityFilters,
          st \in ListStatusFilters, q \in SearchQueries :
           Index(u, c, p, st, q)

SpecList == ListInit /\ [][ListNext]_vars

\* the stored goals of user u that pass the three exact-match filters
Matching(u, category, priority, status) ==
    {g \in goals :
        /\ g.user_id = u
        /\ category = "" \/ g.category = category
        /\ priority = "" \/ g.priority = priority
        /\ status = "completed" => g.completed = TRUE
        /\ status = "pending" => g.completed = FALSE}

\* C21: the goal list of user A filtered by category, priority and status
\* (no search text) holds exactly A's goals that equal the given category,
\* equal the given priority and whose completed flag matches the status;
\* a high-priority goal of A is in A's list filtered by priority=high, and
\* no list of another user B, whatever its filters, holds it.
C21_FilteredGoalList ==
    [][\A u \in {actor'}, c \in CategoryFilters, p \in PriorityFilters,
          st \in ListStatusFilters, q \in SearchQueries :
           Index(u, c, p, st, q) =>
               LET listed == {r.id : r \in resp'.records} IN
               /\ q = "" =>
                      /\ listed = {g.id : g \in Matching(u, c, p, st)}
                      /\ \A r \in resp'.records :
                             \E g \in Matching(u, c, p, st) :
                                 /\ g.id = r.id /\ g.text = r.text
                                 /\ g.priority = r.priority
                                 /\ g.category = r.category
                                 /\ g.completed = r.completed
               /\ \A g \in goals :
                      /\ g.user_id # u => g.id \notin listed
                      /\ (g.user_id = u /\ g.priority = "high" /\ c = ""
                          /\ p = "high" /\ st = "" /\ q = "") =>
                             g.id \in listed
      ]_vars

\* C21 case: a list that returned the user's high-priority goal while
\* another user's high-priority goal was stored
C21_Witness ==
    /\ resp.route = "index"
    /\ \E r \in resp.records : r.priority = "high"
    /\ \E g \in goals : g.user_id # resp.user /\ g.priority = "high"

(***************************************************************************)
(* delete_habit while log_habit requests are in flight                     *)
(***************************************************************************)
\* delete_habit, first store call: habits.find_one({'_id', 'user_id'});
\* without a habit the handler answers 'Habit not found'
DeleteHabitFind(s, u, habit_id) ==
    /\ reqs[s].pc = "idle"
    /\ reqs' = IF FindHabit(habits, habit_id, u) = {}
                 THEN reqs
                 ELSE [reqs EXCEPT ![s] =
                          [IdleReq EXCEPT !.route = "delete_habit",
                                          !.user = u, !.habit_id = habit_id,
                                          !.pc = "delete_one"]]
    /\ actor' = u
    /\ UNCHANGED <<users, goals, habits, habit_logs, utility_bills,
                   user_preferences, bills, next_id, utc, tz, resp,
                   log_calls>>

\* delete_habit, second store call: habits.delete_one({'_id', 'user_id'})
DeleteHabitDeleteOne(s) ==
    /\ reqs[s].pc = "delete_one"
    /\ habits' = {h \in habits : ~(/\ h.id = reqs[s].habit_id
                                    /\ h.user_id = reqs[s].user)}
    /\ log_calls' = ForgetLogCalls(habits')
    /\ reqs' = [reqs EXCEPT ![s].pc = "delete_many"]
    /\ actor' = reqs[s].user
    /\ UNCHANGED <<users, goals, habit_logs, utility_bills,
                   user_preferences, bills, next_id, utc, tz, resp>>

\* delete_habit, third store call: habit_logs.delete_many({'habit_id'});
\* the handler answers success
DeleteHabitDeleteMany(s) ==
    /\ reqs[s].pc = "delete_many"
    /\ habit_logs' = {l \in habit_logs : l.habit_id # reqs[s].habit_id}
    /\ reqs' = [reqs EXCEPT ![s] = IdleReq]
    /\ actor' = reqs[s].user
    /\ UNCHANGED <<users, goals, habits, utility_bills, user_preferences,
                   bills, next_id, utc, tz, resp, log_calls>>

\* one user's requests: log_habit and delete_habit, each between the store
\* calls of the other
DeleteRaceNext ==
    \E u \in Owners :
        \/ \E f \in DailyHabitForms : AddHabit(u, f)
        \/ \E s \in Slots, id \in HabitIds : LogHabitBegin(s, u, id)
        \/ \E s \in Slots : LogHabitFindLog(s)
        \/ \E s \in Slots : LogHabitWriteStep(s)
        \/ \E s \in Slots, id \in HabitIds : DeleteHabitFind(s, u, id)
        \/ \E s \in Slots : DeleteHabitDeleteOne(s)
        \/ \E s \in Slots : DeleteHabitDeleteMany(s)

SpecDeleteRace == UsersInit /\ [][DeleteRaceNext]_vars

\* the ids that habit logs name while no stored habit has them and no
\* delete_habit request has yet to run its delete_many for them; a habit
\* leaves the store only in a delete_habit that goes on to answer success,
\* and log_habit writes logs only for a habit it found in the store
DeletedHabitIds ==
    ({l.habit_id : l \in habit_logs} \ {h.id : h \in habits})
        \ {reqs[s].habit_id : s \in {x \in Slots : reqs[x].pc = "delete_many"}}

\* C22: once delete_habit for habit h has returned success, no habit log
\* with habit_id h exists in the store, also when a log_habit request for h
\* made its ownership check before the delete and its insert after it.
C22_DeletedHabitHasNoLogs == DeletedHabitIds = {}

(***************************************************************************)
(* delete_account with a store call that raises                            *)
(***************************************************************************)
\* what a user may have stored before the account is deleted
AccountRecords == {"goal", "habit", "habit_log", "bill", "preferences"}

\* the id of the record of a kind that a user has
RecordId(u, n) == FirstFreeId + Cardinality(AccountRecords) * (u - 1) + n

\* the stores in which each of the two users holds any of a goal, a habit,
\* a log of today for it, a utility bill and a preferences document, as
\* add_goal, add_habit, log_habit, add_bill and settings leave them
DeleteAccountInit ==
    /\ users = InitialUsers
    /\ utc = StartUtc
    /\ tz = 0
    /\ \E has \in [SeedUsers -> SUBSET AccountRecords] :
           LET holders(kind) == {u \in SeedUsers : kind \in has[u]} IN
           /\ goals =
                  UNION {add_goal({}, u, RecordId(u, 0),
                                  TheOne({f \in GoalForms : f.text = "t1"}),
                                  StartUtc) : u \in holders("goal")}
           /\ habits =
                  UNION {add_habit({}, u, RecordId(u, 1),
                                   TheOne(DailyHabitForms), StartUtc) :
                            u \in holders("habit")}
           /\ habit_logs =
                  UNION {LogHabitWrite({}, {}, RecordId(u, 2), RecordId(u, 1),
                                       u, StartUtc) :
                            u \in holders("habit") \cap holders("habit_log")}
           /\ utility_bills =
                  UNION {add_bill({}, u, RecordId(u, 3),
                                  TheOne({f \in BillForms : f.date # NoDate}),
                                  StartUtc) : u \in holders("bill")}
           /\ user_preferences =
                  UNION {settings({}, u, RecordId(u, 4)) :
                            u \in holders("preferences")}
    /\ next_id = RecordId(2, Cardinality(AccountRecords))
    /\ bills = {}
    /\ reqs = [s \in Slots |-> IdleReq]
    /\ actor = 0
    /\ resp = NoResponse
    /\ log_calls = [k \in {} |-> 0]

\* delete_account requests with any confirm text, none or any one of the
\* six store calls raising
DeleteAccountNext ==
    \E u \in UserIds, c \in ConfirmTexts, k \in 1..(DeleteAccountCalls + 1) :
        DeleteAccount(u, c, k)

SpecDeleteAccount == DeleteAccountInit /\ [][DeleteAccountNext]_vars

\* a collection after delete_many({'user_id': u}) when the call is one of
\* the steps before step k, and as it was otherwise
AfterStep(coll, u, step, k) ==
    IF step < k THEN {d \in coll : d.user_id # u} ELSE coll

\* C23: when the store call of step k (goals, habits, habit logs, bills,
\* preferences, user record) of a confirmed delete_account raises, the
\* deletions of the steps before k are in the store the handler leaves,
\* the steps from k on are not performed, the user record stays and the
\* user is not logged out; the handler's one pass is all there is, with no
\* rollback and no retry.
C23_FailedDeleteAccount ==
    [][\A u \in UserIds, c \in {"delete", "DELETE"},
          k \in 1..DeleteAccountCalls :
           DeleteAccount(u, c, k) =>
               /\ goals' = AfterStep(goals, u, 1, k)
               /\ habits' = AfterStep(habits, u, 2, k)
               /\ habit_logs' = AfterStep(habit_logs, u, 3, k)
               /\ bills' = AfterStep(bills, u, 4, k)
               /\ user_preferences' = AfterStep(user_preferences, u, 5, k)
               /\ users' = users
               /\ utility_bills' = utility_bills
               /\ ~delete_account_logout(c, k)
      ]_vars

\* C23 case: the account of user 1 after the third call raised: goal and
\* habit gone, habit log, preferences and user record still stored
C23_Witness ==
    /\ actor = 1
    /\ \E d \in users : d.id = 1
    /\ \A d \in goals \cup habits : d.user_id # 1
    /\ \E d \in habit_logs : d.user_id = 1
    /\ \E d \in user_preferences : d.user_id = 1
    /\ \E d \in goals : d.user_id = 2

(***************************************************************************)
(* Requests on one goal or one habit, interleaved between the read and     *)
(* the update call                                                         *)
(***************************************************************************)
\* a request that carries no form
NoForm == [text |-> "none"]

\* a request slot nobody uses yet
IdleEdit ==
    [route |-> "idle", user |-> 0, target |-> 0, form |-> NoForm,
     read |-> NoForm, pc |-> "idle", wrote |-> NoForm, seq |-> 0]

\* what a request may ask for: the route, the form it posts
EditRequests ==
    [route : {"edit_goal"}, form : {f \in GoalForms : GoalFormValid(f)}]
    \cup [route : {"toggle_goal", "bulk_action"}, form : {NoForm}]
    \cup [route : {"edit_habit"}, form : HabitForms]

\* edit_goal, toggle_goal, bulk_action complete: the Goal object the
\* handler saves, made from the Goal it read
GoalToSave(route, goal, form, now) ==
    CASE route = "edit_goal" ->
             [goal EXCEPT !.text = form.text, !.priority = form.priority,
                          !.category = CategoryOrGeneral(form.category),
                          !.due_date = form.due_date, !.updated_at = now]
      [] route = "toggle_goal" ->
             [goal EXCEPT !.completed = ~@, !.updated_at = now]
      [] OTHER -> [goal EXCEPT !.completed = TRUE, !.updated_at = now]

\* edit_habit: the '$set' document of its update_one
HabitSet(form) ==
    [name |-> form.name, description |-> form.description,
     frequency |-> form.frequency, target_count |-> form.target_count,
     category |-> form.category]

\* habits.update_one({'_id', 'user_id'}, {'$set': set_doc})
habits_update_one(coll, habit_id, u, set_doc) ==
    {IF h.id = habit_id /\ h.user_id = u
       THEN [f \in DOMAIN h |->
                IF f \in DOMAIN set_doc THEN set_doc[f] ELSE h[f]]
       ELSE h : h \in coll}

\* the handler's read: Goal.find_by_id and the ownership comparison, or
\* habits.find_one({'_id', 'user_id'}); the handler ends here when nothing
\* is found
EditBegin(s, u, request, id) ==
    /\ reqs[s].pc = "idle"
    /\ LET found == IF request.route = "edit_habit"
                    THEN FindHabit(habits, id, u)
                    ELSE OwnedGoals(Goal_find_by_id(goals, id), u)
       IN  reqs' = IF found = {}
                   THEN reqs
                   ELSE [reqs EXCEPT ![s] =
                            [route |-> request.route, user |-> u,
                             target |-> id, form |-> request.form,
                             read |-> TheOne(found), pc |-> "save",
                             wrote |-> NoForm, seq |-> 0]]
    /\ actor' = u
    /\ UNCHANGED <<users, goals, habits, habit_logs, utility_bills,
                   user_preferences, bills, next_id, utc, tz, resp,
                   log_calls>>

\* the handler's update call reaches the store: Goal.save of the object
\* made from the earlier read, or the update_one of edit_habit
EditSave(s) ==
    /\ reqs[s].pc = "save"
    /\ LET r == reqs[s]
           g == GoalToSave(r.route, r.read, r.form, UtcNow)
           written == IF r.route = "edit_habit"
                      THEN HabitSet(r.form)
                      ELSE [f \in DOMAIN GoalData(g, UtcNow) \ {"id"} |->
                               GoalData(g, UtcNow)[f]]
       IN  /\ goals' = IF r.route = "edit_habit" THEN goals
                       ELSE Goal_save(goals, g, UtcNow)
           /\ habits' = IF r.route = "edit_habit"
                        THEN habits_update_one(habits, r.target, r.user,
                                               HabitSet(r.form))
                        ELSE habits
           /\ reqs' = [reqs EXCEPT
                          ![s].pc = "done", ![s].wrote = written,
                          ![s].seq = 1 + Cardinality({t \in Slots :
                                                reqs[t].pc = "done"})]
    /\ actor' = reqs[s].user
    /\ UNCHANGED <<users, habit_logs, utility_bills, user_preferences, bills,
                   next_id, utc, tz, resp, log_calls>>

\* a goal and a habit of user 1, as add_goal and add_habit leave them
EditsInit ==
    /\ users = InitialUsers
    /\ utc = StartUtc
    /\ tz = 0
    /\ goals = add_goal({}, 1, FirstFreeId,
                        TheOne({f \in GoalForms : f.text = "t1"}), StartUtc)
    /\ habits = add_habit({}, 1, FirstFreeId + 1, TheOne(DailyHabitForms),
                          StartUtc)
    /\ next_id = FirstFreeId + 2
    /\ habit_logs = {}
    /\ utility_bills = {}
    /\ user_preferences = {}
    /\ bills = {}
    /\ reqs = [s \in Slots |-> IdleEdit]
    /\ actor = 0
    /\ resp = NoResponse
    /\ log_calls = [k \in {} |-> 0]

EditsNext ==
    \/ \E s \in Slots, u \in UserIds, request \in EditRequests,
          id \in GoalIds \cup HabitIds : EditBegin(s, u, request, id)
    \/ \E s \in Slots : EditSave(s)
    \/ Tick

SpecEdits == EditsInit /\ [][EditsNext]_vars

\* the requests whose update call reached the store and set field f of
\* the document with that id
Touching(id, f) ==
    {s \in Slots : /\ reqs[s].pc = "done"
                   /\ reqs[s].target = id
                   /\ f \in DOMAIN reqs[s].wrote}

\* C24: when requests that modify the same goal (edit_goal, toggle_goal,
\* bulk_action complete) or the same habit (edit_habit) interleave, each
\* field of the stored document has the value of the last update call to
\* reach the store among those that set the field.
C24_LastWriteWins ==
    \A d \in goals \cup habits :
        \A f \in DOMAIN d :
            Touching(d.id, f) # {} =>
                \E s \in Touching(d.id, f) :
                    /\ \A t \in Touching(d.id, f) : reqs[t].seq <= reqs[s].seq
                    /\ d[f] = reqs[s].wrote[f]

\* C24 case: toggle_goal read the goal, edit_goal changed its text, then
\* the toggle's save reached the store last: the stored text is the one
\* the toggle read
C24_Witness ==
    \E s, t \in Slots :
        /\ reqs[s].pc = "done" /\ reqs[s].route = "edit_goal"
        /\ reqs[t].pc = "done" /\ reqs[t].route = "toggle_goal"
        /\ reqs[s].seq < reqs[t].seq
        /\ reqs[s].wrote.text # reqs[t].wrote.text
        /\ \E d \in goals : /\ d.id = reqs[t].target
                            /\ d.text = reqs[t].wrote.text
                            /\ d.completed
                            /\ d.updated_at > d.created_at

(***************************************************************************)
(* settings, requests interleaved between find_one and insert_one          *)
(***************************************************************************)
\* settings, first store call: user_preferences.find_one({'user_id'}); the
\* handler renders the document found and ends when there is one
SettingsBegin(s, u) ==
    /\ reqs[s].pc = "idle"
    /\ reqs' = IF FindPreferences(user_preferences, u) # {}
                 THEN reqs
                 ELSE [reqs EXCEPT ![s] =
                          [IdleReq EXCEPT !.route = "settings", !.user = u,
                                          !.pc = "insert"]]
    /\ actor' = u
    /\ UNCHANGED <<users, goals, habits, habit_logs, utility_bills,
                   user_preferences, bills, next_id, utc, tz, resp,
                   log_calls>>

\* settings, second store call: insert_one(user_prefs) of the defaults
SettingsInsert(s) ==
    /\ reqs[s].pc = "insert"
    /\ next_id < FirstFreeId + MaxNewIds
    /\ user_preferences' =
           user_preferences \cup {DefaultPreferences(next_id, reqs[s].user)}
    /\ next_id' = next_id + 1
    /\ reqs' = [reqs EXCEPT ![s] = IdleReq]
    /\ actor' = reqs[s].user
    /\ UNCHANGED <<users, goals, habits, habit_logs, utility_bills, bills,
                   utc, tz, resp, log_calls>>

\* settings views in flight, update_preferences requests between their
\* store calls
SettingsRaceNext ==
    \/ \E s \in Slots, u \in UserIds : SettingsBegin(s, u)
    \/ \E s \in Slots : SettingsInsert(s)
    \/ \E u \in UserIds, theme \in Themes : UpdatePreferences(u, theme)

SpecSettingsRace == UsersInit /\ [][SettingsRaceNext]_vars

\* C25: in every reachable state there is at most one user_preferences
\* document per user_id, for any sequence of settings views and
\* update_preferences requests, two first-time settings views of one user
\* interleaved between find_one and insert_one included.
C25_OnePreferencesPerUser ==
    \A p1, p2 \in user_preferences : p1.user_id = p2.user_id => p1 = p2

(***************************************************************************)
(* Habit forms as they are posted                                          *)
(***************************************************************************)
\* a field the posted form does not have
Missing == "<missing>"

\* posted values of frequency and of target_count, which arrive as text
PostedFrequencies == {Missing, "daily", "weekly", "monthly", "yearly", ""}
PostedCounts == {Missing, "1", " 2 ", "0", "-2", "abc"}

PostedHabitForms ==
    [name : {"h1"}, description : {"none"}, frequency : PostedFrequencies,
     target_count : PostedCounts, category : {Missing, "health"}]

\* request.form.get(key, default)
FormGet(value, default) == IF value = Missing THEN default ELSE value

\* int(text) raises ValueError for text that is no integer literal
IntRaises(text) == text \in {"abc", ""}

\* int(text): surrounding blanks and a sign are accepted
int(text) ==
    CASE text = "1" -> 1
      [] text = " 2 " -> 2
      [] text = "0" -> 0
      [] text = "-2" -> 0 - 2
      [] OTHER -> 0

\* int(request.form.get('target_count', 1))
TargetCount(posted) ==
    IF posted.target_count = Missing THEN 1 ELSE int(posted.target_count)

\* add_habit, edit_habit: the values read from request.form
HabitFormData(posted) ==
    [name |-> posted.name, description |-> posted.description,
     frequency |-> FormGet(posted.frequency, "daily"),
     target_count |-> TargetCount(posted),
     category |-> FormGet(posted.category, "general")]

\* a request whose handler raised before any store call, or caught the
\* exception and flashed an error
RequestFailed(u) ==
    /\ actor' = u
    /\ UNCHANGED <<users, goals, habits, habit_logs, utility_bills,
                   user_preferences, bills, next_id, utc, tz, reqs, resp,
                   log_calls>>

\* add_habit (POST) with the form as posted
PostAddHabit(u, posted) ==
    IF posted.target_count # Missing /\ IntRaises(posted.target_count)
    THEN RequestFailed(u)
    ELSE AddHabit(u, HabitFormData(posted))

\* edit_habit (POST) with the form as posted
PostEditHabit(u, habit_id, posted) ==
    IF /\ FindHabit(habits, habit_id, u) # {}
       /\ posted.target_count # Missing
       /\ IntRaises(posted.target_count)
    THEN RequestFailed(u)
    ELSE EditHabit(u, habit_id, HabitFormData(posted))

HabitFormsNext ==
    \E u \in Owners, posted \in PostedHabitForms :
        \/ PostAddHabit(u, posted)
        \/ \E id \in HabitIds : PostEditHabit(u, id, posted)

SpecHabitForms == UsersInit /\ [][HabitFormsNext]_vars

\* C26: every habit stored through add_habit or edit_habit, for any
\* submitted form values, has target_count >= 1 and frequency in
\* {daily, weekly, monthly}.
C26_StoredHabitIsValid ==
    \A h \in habits :
        /\ h.target_count >= 1
        /\ h.frequency \in {"daily", "weekly", "monthly"}

(***************************************************************************)
(* What an analytics request leaves in the store                           *)
(***************************************************************************)
\* analytics requests of either user, at two times of day, over the stores
\* in which each user holds any of a goal, a habit, a habit log, a utility
\* bill and a preferences document
AnalyticsFrameNext ==
    \/ \E u \in UserIds : Analytics(u)
    \/ Tick

SpecAnalyticsFrame == DeleteAccountInit /\ [][AnalyticsFrameNext]_vars

\* C27: an analytics request leaves the six collections (users, goals,
\* habits, habit logs, utility bills, user preferences) as they were, for
\* every store state and every user.
C27_AnalyticsWritesNothing ==
    [][\A u \in UserIds :
           Analytics(u) =>
               UNCHANGED <<users, goals, habits, habit_logs, utility_bills,
                           user_preferences>>
      ]_vars

\* C27 case: analytics answered a user who has a goal, a habit and a log
\* of it, while the other five collections hold documents of that user
C27_Witness ==
    /\ resp.route = "analytics"
    /\ resp.data.total = 1
    /\ resp.data.habits.total = 1
    /\ resp.data.habits.active = 1
    /\ \E d \in utility_bills : d.user_id = resp.user
    /\ \E d \in user_preferences : d.user_id = resp.user
    /\ \E d \in users : d.id = resp.user

(***************************************************************************)
(* Habit logs as analytics reads them                                      *)
(***************************************************************************)
\* one user's requests to the routes that write habits and habit logs,
\* the clock, and analytics requests of either user
HabitAnalyticsNext ==
    \/ \E u \in Owners :
           \/ \E f \in DailyHabitForms : AddHabit(u, f)
           \/ \E id \in HabitIds : LogHabit(u, id)
           \/ \E id \in HabitIds : DeleteHabit(u, id)
    \/ Tick
    \/ \E u \in UserIds : Analytics(u)

SpecHabitAnalytics == UsersInit /\ [][HabitAnalyticsNext]_vars

\* C28: in every store state the routes reach no habit log has a
\* 'completed' field, and an analytics response reports
\* habits.completed_today, longest_streak, average_streak and
\* completion_rate as 0 and a 7-day habit series of zeros, however often
\* habits were logged.
C28_AnalyticsSeesNoCompletedLog ==
    /\ \A l \in habit_logs : "completed" \notin DOMAIN l
    /\ resp.route = "analytics" =>
           /\ resp.data.habits.completed_today = 0
           /\ resp.data.habits.longest_streak = 0
           /\ resp.data.habits.average_streak = 0
           /\ resp.data.habits.completion_rate = 0
           /\ Len(resp.data.habits.weekly_progress) = WeekDays
           /\ \A i \in 1..WeekDays :
                  resp.data.habits.weekly_progress[i].completed = 0

\* C28 case: analytics answered a user whose habit was logged within the
\* week, twice on one day, and for which the habits list view reports a
\* positive streak
C28_Witness ==
    /\ resp.route = "analytics"
    /\ resp.data.habits.active >= 1
    /\ \E h \in habits :
           /\ h.user_id = resp.user
           /\ \E l \in habit_logs :
                  l.habit_id = h.id /\ l.completed_count >= 2
           /\ \E entry \in habit_stats(h, resp.user, StartOfDay(Now)) :
                  entry.streak > 0

(***************************************************************************)
(* Completed goals edited on a later day                                   *)
(***************************************************************************)
\* goals completed before the edits
MaxEdited == 3

\* how many days before today a goal was completed: today, yesterday, or
\* before the trailing 30 days
DaysSinceCompleted == {0, 1, 30 + 1}

\* the stores in which up to MaxEdited goals were added and completed at
\* the start of one of those days, the first two by user 1 and the others
\* by user 2
EditedInit ==
    /\ users = InitialUsers
    /\ utc = StartUtc
    /\ tz \in TzOffsets
    /\ \E n \in 0..MaxEdited :
       \E back \in [1..n -> DaysSinceCompleted] :
           /\ goals = ScenarioGoals(
                          [i \in 1..n |->
                              Entry(IF i <= 2 THEN 1 ELSE 2,
                                    DateOf(StartUtc) - back[i], 0, TRUE)], n)
           /\ next_id = FirstFreeId + n
    /\ habits = {}
    /\ habit_logs = {}
    /\ utility_bills = {}
    /\ user_preferences = {}
    /\ bills = {}
    /\ reqs = [s \in Slots |-> IdleReq]
    /\ actor = 0
    /\ resp = NoResponse
    /\ log_calls = [k \in {} |-> 0]

\* edit_goal and analytics requests, and nothing else
EditedNext ==
    \E u \in UserIds :
        \/ \E id \in GoalIds, form \in {f \in GoalForms : f.text # "t1"} :
               EditGoal(u, id, form)
        \/ Analytics(u)

SpecEdited == EditedInit /\ [][EditedNext]_vars

\* 1 when the time lies in the window, 0 when not
Within(time, lo, hi) == IF lo <= time /\ time <= hi THEN 1 ELSE 0

\* the goals as they were stored when they were completed, before any
\* edit: a goal of these stores was added and completed at one time
AsCompleted == {[g EXCEPT !.updated_at = g.created_at] : g \in goals}

\* C29: a completed goal counts for the current streak, the weekly
\* progress and the monthly windows on the day of its last save: after
\* edit_goal on a goal completed on an earlier day, each day's count of
\* completed goals has the goal on the day of the edit and no longer on
\* the day of completion, and the goal has moved into the trailing month.
C29_EditRestampsCompletion ==
    [][\A u \in {actor'}, id \in GoalIds,
          form \in {f \in GoalForms : GoalFormValid(f)} :
           (/\ \E g \in goals : g.id = id /\ g.user_id = u /\ g.completed
            /\ EditGoal(u, id, form)) =>
               LET old == (CHOOSE g \in goals : g.id = id).updated_at
                   new == CHOOSE g \in goals' : g.id = id
               IN  /\ new.completed
                   /\ new.updated_at = UtcNow
                   /\ new.created_at < UtcNow
                   /\ \A i \in 0..30 :
                          LET lo == StartOfDay(MinusDays(Now, i))
                              hi == EndOfDay(MinusDays(Now, i))
                          IN  CompletedBetween(goals', u, lo, hi)
                                  = CompletedBetween(goals, u, lo, hi)
                                    - Within(old, lo, hi)
                                    + Within(UtcNow, lo, hi)
                   /\ last_month_completed(goals', u, Now)
                          = last_month_completed(goals, u, Now)
                            + (IF old < LastMonthStart(Now) THEN 1 ELSE 0)
                   /\ previous_month_completed(goals', u, Now)
                          = previous_month_completed(goals, u, Now)
                            - (IF /\ old >= PreviousMonthStart(Now)
                                  /\ old < LastMonthStart(Now)
                               THEN 1 ELSE 0)
      ]_vars

\* C29 case: nothing but edits happened since the goals were completed;
\* user 1, who completed goals today and yesterday, has a streak of 1
\* where it was 2, and user 2, who completed a goal a month ago, has a
\* streak of 1 where it was 0, which is what analytics answered
C29_Witness ==
    /\ current_streak(AsCompleted, 1, Now, 0) = 2
    /\ current_streak(goals, 1, Now, 0) = 1
    /\ current_streak(AsCompleted, 2, Now, 0) = 0
    /\ current_streak(goals, 2, Now, 0) = 1
    /\ resp.route = "analytics"
    /\ resp.user = 2
    /\ resp.data.current_streak = 1
    /\ resp.data.weekly_progress[WeekDays].completed = 1


(***************************************************************************)
(* Interleaved register, update_profile and Google login requests          *)
(***************************************************************************)
\* a request between two of its store calls: the route, the logged-in
\* user, the store call it makes next and what it holds for it (the form,
\* or the document or fields it is about to write)
PendingUser(route, u, pc, doc) ==
    [route |-> route, user |-> u, pc |-> pc, doc |-> doc]

\* register, first store call: the form is validated and
\* User.find_by_username is read; 'Username already exists!' ends it
RegisterFindUsername(s, form) ==
    /\ reqs[s].pc = "idle"
    /\ reqs' = IF /\ RegisterFormValid(form)
                    /\ User_find_by_username(users, form.username) = {}
                 THEN [reqs EXCEPT ![s] =
                          PendingUser("register", 0, "find_email", form)]
                 ELSE reqs
    /\ actor' = 0
    /\ UNCHANGED <<users, goals, habits, habit_logs, utility_bills,
                   user_preferences, bills, next_id, utc, tz, resp,
                   log_calls>>

\* register, second store call: User.find_by_email is read; 'Email already
\* registered!' ends it, otherwise the User is built; id 0 is a User that
\* has no id yet
RegisterFindEmail(s) ==
    /\ reqs[s].pc = "find_email"
    /\ reqs[s].route = "register"
    /\ reqs' = [reqs EXCEPT ![s] =
                   IF User_find_by_email(users, reqs[s].doc.email) = {}
                   THEN PendingUser("register", 0, "save",
                            UserDoc(0, reqs[s].doc.username,
                                    reqs[s].doc.email,
                                    generate_password_hash(
                                        reqs[s].doc.password),
                                    "none", UtcNow))
                   ELSE IdleReq]
    /\ actor' = 0
    /\ UNCHANGED <<users, goals, habits, habit_logs, utility_bills,
                   user_preferences, bills, next_id, utc, tz, resp,
                   log_calls>>

\* google_logged_in, first store call: User.find_by_google_id; a user found
\* is logged in (login_user) and the request answers with the redirect,
\* nothing is written
GoogleFindGoogleId(s, google_info) ==
    /\ reqs[s].pc = "idle"
    /\ \E by_google \in
             FindOne(User_find_by_google_id(users, google_info.id)) :
           IF by_google # {}
           THEN /\ reqs' = reqs
                /\ actor' = TheOne(by_google).id
                /\ resp' = Response("google_logged_in", TheOne(by_google).id,
                                    {}, NoData)
           ELSE /\ reqs' = [reqs EXCEPT ![s] =
                                PendingUser("google_logged_in", 0,
                                            "find_email", google_info)]
                /\ actor' = 0
                /\ resp' = resp
    /\ UNCHANGED <<users, goals, habits, habit_logs, utility_bills,
                   user_preferences, bills, next_id, utc, tz, log_calls>>

\* google_logged_in, second store call: User.find_by_email; a user found
\* gets the google_id and is saved whole, otherwise the search for a free
\* username starts at the name Google gave
GoogleFindEmail(s) ==
    /\ reqs[s].pc = "find_email"
    /\ reqs[s].route = "google_logged_in"
    /\ \E by_email \in FindOne(User_find_by_email(users, reqs[s].doc.email)) :
           reqs' = [reqs EXCEPT ![s] =
                       IF by_email # {}
                       THEN PendingUser("google_logged_in", 0, "save",
                                [TheOne(by_email)
                                     EXCEPT !.google_id = reqs[s].doc.id])
                       ELSE LET username ==
                                    ReplaceLower(IF reqs[s].doc.name = "none"
                                                 THEN reqs[s].doc.email
                                                 ELSE reqs[s].doc.name)
                            IN  PendingUser("google_logged_in", 0,
                                    "find_username",
                                    [google_info |-> reqs[s].doc,
                                     original_username |-> username,
                                     username |-> username,
                                     counter |-> FirstCounter])]
    /\ actor' = 0
    /\ UNCHANGED <<users, goals, habits, habit_logs, utility_bills,
                   user_preferences, bills, next_id, utc, tz, resp,
                   log_calls>>

\* google_logged_in, one User.find_by_username of "while existing_user":
\* a taken name gives the next candidate, a free one the User to save
GoogleFindUsername(s) ==
    /\ reqs[s].pc = "find_username"
    /\ reqs' = [reqs EXCEPT ![s] =
                   IF User_find_by_username(users, reqs[s].doc.username) # {}
                   THEN [reqs[s] EXCEPT
                            !.doc.username =
                                reqs[s].doc.original_username \o "_"
                                    \o ToString(reqs[s].doc.counter),
                            !.doc.counter = reqs[s].doc.counter + 1]
                   ELSE PendingUser("google_logged_in", 0, "save",
                            UserDoc(0, reqs[s].doc.username,
                                    reqs[s].doc.google_info.email, "none",
                                    reqs[s].doc.google_info.id, UtcNow))]
    /\ actor' = 0
    /\ UNCHANGED <<users, goals, habits, habit_logs, utility_bills,
                   user_preferences, bills, next_id, utc, tz, resp,
                   log_calls>>

\* User.save: insert_one for a User without id, otherwise update_one that
\* sets every field of the User as the request holds it.  register then
\* redirects to the login page and logs nobody in; google_logged_in calls
\* login_user for the user saved and answers with the redirect.
UserSave(s) ==
    /\ reqs[s].pc = "save"
    /\ reqs[s].doc.id = 0 => NewUserAllowed
    /\ users' = IF reqs[s].doc.id = 0
                  THEN users \cup {[reqs[s].doc EXCEPT !.id = next_id]}
                  ELSE {IF d.id = reqs[s].doc.id THEN reqs[s].doc ELSE d :
                        d \in users}
    /\ next_id' = IF reqs[s].doc.id = 0 THEN next_id + 1 ELSE next_id
    /\ reqs' = [reqs EXCEPT ![s] = IdleReq]
    /\ actor' = IF reqs[s].route = "register" THEN 0
                ELSE IF reqs[s].doc.id = 0 THEN next_id ELSE reqs[s].doc.id
    /\ resp' = IF reqs[s].route = "register" THEN resp
               ELSE Response("google_logged_in", actor', {}, NoData)
    /\ UNCHANGED <<goals, habits, habit_logs, utility_bills,
                   user_preferences, bills, utc, tz, log_calls>>

\* update_profile, first store call: the two fields are stripped, an empty
\* one ends the request, and find_one({'username', '_id': {'$ne'}}) is
\* read; 'Username is already taken.' ends it
UpdateProfileFindUsername(s, u, username_field, email_field) ==
    /\ reqs[s].pc = "idle"
    /\ reqs' = IF \/ "" \in {Strip(username_field), Strip(email_field)}
                    \/ TakenByAnother(users, u, "username",
                                      Strip(username_field)) # {}
                 THEN reqs
                 ELSE [reqs EXCEPT ![s] =
                          PendingUser("update_profile", u, "find_email",
                              [username |-> Strip(username_field),
                               email |-> Strip(email_field)])]
    /\ actor' = u
    /\ UNCHANGED <<users, goals, habits, habit_logs, utility_bills,
                   user_preferences, bills, next_id, utc, tz, resp,
                   log_calls>>

\* update_profile, second store call: find_one({'email', '_id': {'$ne'}});
\* 'Email is already registered.' ends it
UpdateProfileFindEmail(s) ==
    /\ reqs[s].pc = "find_email"
    /\ reqs[s].route = "update_profile"
    /\ reqs' = [reqs EXCEPT ![s] =
                   IF TakenByAnother(users, reqs[s].user, "email",
                                     reqs[s].doc.email) # {}
                   THEN IdleReq
                   ELSE [reqs[s] EXCEPT !.pc = "set"]]
    /\ actor' = reqs[s].user
    /\ UNCHANGED <<users, goals, habits, habit_logs, utility_bills,
                   user_preferences, bills, next_id, utc, tz, resp,
                   log_calls>>

\* update_profile, third store call:
\* update_one({'_id': current_user.id}, {'$set': {username, email}})
UpdateProfileSet(s) ==
    /\ reqs[s].pc = "set"
    /\ users' = {IF d.id = reqs[s].user
                 THEN [d EXCEPT !.username = reqs[s].doc.username,
                                !.email = reqs[s].doc.email]
                 ELSE d : d \in users}
    /\ reqs' = [reqs EXCEPT ![s] = IdleReq]
    /\ actor' = reqs[s].user
    /\ UNCHANGED <<goals, habits, habit_logs, utility_bills,
                   user_preferences, bills, next_id, utc, tz, resp,
                   log_calls>>

\* requests of the three routes, each able to run between any two store
\* calls of another
UsersRaceNext ==
    \E s \in Slots :
        \/ \E form \in {f \in RegisterForms :
                           /\ f.username = "carol"
                           /\ f.email \in {"carol@x", "bob@x"}} :
               RegisterFindUsername(s, form)
        \/ RegisterFindEmail(s)
        \/ \E google_info \in {g \in GoogleInfos : g.email = "carol@x"} :
               GoogleFindGoogleId(s, google_info)
        \/ GoogleFindEmail(s)
        \/ GoogleFindUsername(s)
        \/ UserSave(s)
        \/ \E u \in UserIds, username \in {" carol "},
              email \in ProfileEmails :
               UpdateProfileFindUsername(s, u, username, email)
        \/ UpdateProfileFindEmail(s)
        \/ UpdateProfileSet(s)

SpecUsersRace == UsersInit /\ [][UsersRaceNext]_vars

\* C30: also when register, update_profile and Google login requests
\* interleave, with two requests passing their find-by-username and
\* find-by-email checks before either writes, there are as many distinct
\* usernames and as many distinct emails as there are users.
C30_UniqueUnderInterleaving ==
    /\ Cardinality({d.username : d \in users}) = Cardinality(users)
    /\ Cardinality({d.email : d \in users}) = Cardinality(users)
====
